---------------------------- MODULE Spec2Model ----------------------------
(***************************************************************************)
(* Smart Stay: the handlers of routes/ai.js (hotel search, the forwarding  *)
(* endpoints, amenity extraction for one listing and in bulk) and the      *)
(* seeding script init/index.js, over the listings collection of           *)
(* models/listing.js.  Each is a process with its own specification.       *)
(*                                                                         *)
(* Representation.                                                         *)
(*   - A JavaScript string is a sequence of one-character strings.         *)
(*   - A JavaScript Number with at most one decimal digit is the integer   *)
(*     count of its tenths: Num(2500, 5) is 2500.5.                        *)
(*   - A query-string parameter is a record [given, text]: given is FALSE  *)
(*     when the parameter is absent from the URL.                          *)
(*   - A listing document is a record; hasAmenities is FALSE when the      *)
(*     stored document has no amenities field ($exists: false).            *)
(***************************************************************************)
EXTENDS Integers, Sequences, FiniteSets, TLC

VARIABLES listings, request, candidates, response, pc,
          seedPc, seedRuns, nextId, proxy, proxyResponse,
          extract, extractResponse, bulk, bulkResponse

vars == <<listings, request, candidates, response, pc,
          seedPc, seedRuns, nextId, proxy, proxyResponse,
          extract, extractResponse, bulk, bulkResponse>>

\* the state of the search handler
searchVars == <<request, candidates, response, pc>>

\* the state of the seeding script
seedVars == <<seedPc, seedRuns, nextId>>

\* the state of the handlers that forward to the AI service
proxyVars == <<proxy, proxyResponse>>

\* the state of the handler that extracts the amenities of one listing
extractVars == <<extract, extractResponse>>

\* the state of the handler that extracts the amenities of many listings
bulkVars == <<bulk, bulkResponse>>

-----------------------------------------------------------------------------
(* Bounds of the model *)

\* small collections hold at most this many listings
MaxListings == 2

\* large collections hold SearchLimit + 1 .. SearchLimit + MaxExtra listings
MaxExtra == 2

-----------------------------------------------------------------------------
(* Strings *)

UpperChars == <<"A","B","C","D","E","F","G","H","I","J","K","L","M",
                "N","O","P","Q","R","S","T","U","V","W","X","Y","Z">>

LowerChars == <<"a","b","c","d","e","f","g","h","i","j","k","l","m",
                "n","o","p","q","r","s","t","u","v","w","x","y","z">>

LowerChar(c) ==
    IF \E i \in 1..Len(UpperChars) : UpperChars[i] = c
    THEN LowerChars[CHOOSE i \in 1..Len(UpperChars) : UpperChars[i] = c]
    ELSE c

\* String.prototype.toLowerCase
toLowerCase(s) == [i \in 1..Len(s) |-> LowerChar(s[i])]

\* t occurs in s at offset k (0-based)
OccursAt(s, t, k) == \A i \in 1..Len(t) : s[k + i] = t[i]

\* String.prototype.includes: t is a substring of s ("" is in every string)
includes(s, t) ==
    /\ Len(t) <= Len(s)
    /\ \E k \in 0..(Len(s) - Len(t)) : OccursAt(s, t, k)

\* s.split(',')[0]: the text before the first comma, all of s if none
splitFirst(s) ==
    IF \E i \in 1..Len(s) : s[i] = ","
    THEN SubSeq(s, 1, (CHOOSE i \in 1..Len(s) :
                          /\ s[i] = ","
                          /\ \A j \in 1..(i - 1) : s[j] # ",") - 1)
    ELSE s

\* Array.prototype.some over an array of strings
some(arr, P(_)) == \E i \in 1..Len(arr) : P(arr[i])

-----------------------------------------------------------------------------
(* Numbers *)

Num(whole, tenths) == whole * 10 + tenths

Digits == <<"0","1","2","3","4","5","6","7","8","9">>

IsDigit(c) == \E d \in 1..Len(Digits) : Digits[d] = c

DigitValue(c) == (CHOOSE d \in 1..Len(Digits) : Digits[d] = c) - 1

\* length of the leading run of decimal digits of s
RECURSIVE DigitRun(_)
DigitRun(s) ==
    IF s = <<>> \/ ~IsDigit(Head(s)) THEN 0 ELSE 1 + DigitRun(Tail(s))

\* value of a sequence of decimal digits
RECURSIVE DigitsValue(_)
DigitsValue(s) ==
    IF s = <<>> THEN 0
    ELSE DigitsValue(SubSeq(s, 1, Len(s) - 1)) * 10 + DigitValue(s[Len(s)])

\* parseInt(s): the integer written by the leading digits of s; what follows
\* the first non-digit (a decimal point and fraction) is dropped.
\* Defined for the unsigned decimal numerals the model supplies.
parseInt(s) == Num(DigitsValue(SubSeq(s, 1, DigitRun(s))), 0)


-----------------------------------------------------------------------------
(* Listing documents (models/listing.js) *)

\* Listing document shapes the collection is populated from.  A stored
\* document takes its fields from one of these; its id is given on insert.
Templates == <<
    [ title        |-> <<"S","e","a"," ","P","o","o","l">>,
      description  |-> <<"l","u","x","u","r","y"," ","s","p","a"," ","p","o","o","l">>,
      location     |-> <<"C","a","l","a","n","g","u","t","e",","," ","G","o","a">>,
      price        |-> Num(4500, 0),
      hasAmenities |-> TRUE,
      amenities    |-> << <<"P","o","o","l">>, <<"S","p","a">> >> ],
    [ title        |-> <<"H","u","t">>,
      description  |-> <<>>,
      location     |-> <<"G","o","a">>,
      price        |-> Num(2500, 0),
      hasAmenities |-> TRUE,
      amenities    |-> << <<"P","o","o","l">> >> ],
    [ title        |-> <<"I","n","n">>,
      description  |-> <<"f","r","e","e"," ","w","i","f","i">>,
      location     |-> <<>>,
      price        |-> Num(3000, 0),
      hasAmenities |-> TRUE,
      amenities    |-> << >> ],
    [ title        |-> <<"S","p","a"," ","I","n","n">>,
      description  |-> <<"P","o","o","l">>,
      location     |-> <<"B","a","g","a"," ",","," ","G","o","a">>,
      price        |-> Num(2500, 5),
      hasAmenities |-> FALSE,
      amenities    |-> << >> ],
    [ title        |-> <<"P","o","o","l"," ","I","n","n">>,
      description  |-> <<>>,
      location     |-> <<"G","o","a",","," ","I","n","d","i","a">>,
      price        |-> Num(4000, 0),
      hasAmenities |-> TRUE,
      amenities    |-> << >> ] >>

\* the document stored with identifier id from template t
Document(id, t) ==
    [ id           |-> id,
      title        |-> Templates[t].title,
      description  |-> Templates[t].description,
      location     |-> Templates[t].location,
      price        |-> Templates[t].price,
      hasAmenities |-> Templates[t].hasAmenities,
      amenities    |-> Templates[t].amenities ]

\* a collection of n documents in insertion order, the i-th from template f[i]
Collection(n, f) == [i \in 1..n |-> Document(i, f[i])]

\* repeating pattern of templates starting at offset o
Cyclic(n, o) == [i \in 1..n |-> ((i + o) % Len(Templates)) + 1]

-----------------------------------------------------------------------------
(* Storage: Listing.find(filter).lean() *)

\* `if (x)` on a query-string parameter: absent and "" are falsy, every
\* other string (also "0") is truthy
Truthy(p) == p.given /\ p.text # <<>>

\* one pattern character against one text character under $options: 'i';
\* "." is the regular-expression wildcard, the model's other characters are
\* literals
CharMatches(pch, tch) == pch = "." \/ LowerChar(pch) = LowerChar(tch)

\* { $regex: pattern, $options: 'i' }: the pattern matches somewhere in text
regexMatch(pattern, text) ==
    /\ Len(pattern) <= Len(text)
    /\ \E k \in 0..(Len(text) - Len(pattern)) :
           \A i \in 1..Len(pattern) : CharMatches(pattern[i], text[k + i])

\* the filter object built from req.query
BuildFilter(req) ==
    [ hasLocation |-> Truthy(req.location),
      regex       |-> req.location.text,
      hasPrice    |-> Truthy(req.maxPrice),
      lte         |-> IF Truthy(req.maxPrice) THEN parseInt(req.maxPrice.text)
                      ELSE 0 ]

\* a document satisfies the filter
Satisfies(doc, filter) ==
    /\ filter.hasLocation => regexMatch(filter.regex, doc.location)
    /\ filter.hasPrice => doc.price <= filter.lte

\* Listing.find(filter).lean(): the matching documents in collection order
Find(filter, docs) == SelectSeq(docs, LAMBDA d : Satisfies(d, filter))

-----------------------------------------------------------------------------
(* Relevance scoring *)

keywords == <<
    <<"p","o","o","l">>,
    <<"w","i","f","i">>,
    <<"p","a","r","k","i","n","g">>,
    <<"b","e","a","c","h">>,
    <<"a","c">>,
    <<"a","i","r"," ","c","o","n","d","i","t","i","o","n","i","n","g">>,
    <<"k","i","t","c","h","e","n">>,
    <<"g","y","m">>,
    <<"s","p","a">>,
    <<"g","a","r","d","e","n">>,
    <<"l","u","x","u","r","y">>,
    <<"b","u","d","g","e","t">>,
    <<"f","a","m","i","l","y">>,
    <<"c","o","u","p","l","e">>,
    <<"b","u","s","i","n","e","s","s">>,
    <<"m","o","u","n","t","a","i","n">>,
    <<"h","i","l","l">>,
    <<"s","e","a">> >>

\* hotel.amenities is truthy: the document has an amenities array
hasAmenitiesArray(hotel) == hotel.hasAmenities

\* keywords.forEach with the amenities check as an else branch of the text
\* check
RECURSIVE keywordScore_ElseIf(_, _, _)
keywordScore_ElseIf(i, queryLower, hotel) ==
    IF i > Len(keywords) THEN 0
    ELSE LET keyword    == keywords[i]
             inText     == includes(toLowerCase(hotel.description), keyword)
                              \/ includes(toLowerCase(hotel.title), keyword)
             inAmenities == /\ hasAmenitiesArray(hotel)
                            /\ some(hotel.amenities,
                                    LAMBDA a : includes(toLowerCase(a), keyword))
         IN  (IF includes(queryLower, keyword)
              THEN (IF inText THEN 20 ELSE IF inAmenities THEN 25 ELSE 0)
              ELSE 0)
             + keywordScore_ElseIf(i + 1, queryLower, hotel)

\* keywords.forEach without the check that the query names the keyword
RECURSIVE keywordScore_Ungated(_, _, _)
keywordScore_Ungated(i, queryLower, hotel) ==
    IF i > Len(keywords) THEN 0
    ELSE LET keyword    == keywords[i]
             inText     == includes(toLowerCase(hotel.description), keyword)
                              \/ includes(toLowerCase(hotel.title), keyword)
             inAmenities == /\ hasAmenitiesArray(hotel)
                            /\ some(hotel.amenities,
                                    LAMBDA a : includes(toLowerCase(a), keyword))
         IN  (IF inText THEN 20 ELSE 0) + (IF inAmenities THEN 25 ELSE 0)
             + keywordScore_Ungated(i + 1, queryLower, hotel)

\* keywords.forEach comparing the amenities as stored, not lower-cased
RECURSIVE keywordScore_CaseSensitive(_, _, _)
keywordScore_CaseSensitive(i, queryLower, hotel) ==
    IF i > Len(keywords) THEN 0
    ELSE LET keyword    == keywords[i]
             inText     == includes(toLowerCase(hotel.description), keyword)
                              \/ includes(toLowerCase(hotel.title), keyword)
             inAmenities == /\ hasAmenitiesArray(hotel)
                            /\ some(hotel.amenities,
                                    LAMBDA a : includes(a, keyword))
         IN  (IF includes(queryLower, keyword)
              THEN (IF inText THEN 20 ELSE 0) + (IF inAmenities THEN 25 ELSE 0)
              ELSE 0)
             + keywordScore_CaseSensitive(i + 1, queryLower, hotel)

\* keywords.forEach(...): the points added by keywords[i], keywords[i+1], ...
RECURSIVE keywordScore(_, _, _)
keywordScore(i, queryLower, hotel) ==
    IF i > Len(keywords) THEN 0
    ELSE LET keyword    == keywords[i]
             descLower  == toLowerCase(hotel.description)
             titleLower == toLowerCase(hotel.title)
             inText     == includes(descLower, keyword)
                              \/ includes(titleLower, keyword)
             inAmenities == /\ hasAmenitiesArray(hotel)
                            /\ some(hotel.amenities,
                                    LAMBDA a : includes(toLowerCase(a), keyword))
         IN  (IF includes(queryLower, keyword)
              THEN (IF inText THEN 20 ELSE 0) + (IF inAmenities THEN 25 ELSE 0)
              ELSE 0)
             + keywordScore(i + 1, queryLower, hotel)

\* s.split(',').pop(): the text after the last comma, all of s if none
splitLast(s) ==
    IF \E i \in 1..Len(s) : s[i] = ","
    THEN SubSeq(s, (CHOOSE i \in 1..Len(s) :
                       /\ s[i] = ","
                       /\ \A j \in (i + 1)..Len(s) : s[j] # ",") + 1, Len(s))
    ELSE s

\* the bonus taken from the last comma segment of the location
locationScore_LastSegment(queryLower, hotel) ==
    IF includes(queryLower, splitLast(toLowerCase(hotel.location)))
    THEN 30 ELSE 0

\* Location match bonus
locationScore(queryLower, hotel) ==
    LET locationLower == toLowerCase(hotel.location)
    IN  IF includes(queryLower, toLowerCase(splitFirst(locationLower)))
        THEN 30 ELSE 0

\* the price bands with the budget and luxury bounds included
priceScore_Inclusive(queryLower, hotel) ==
      (IF includes(queryLower, <<"b","u","d","g","e","t">>) /\ hotel.price <= Num(3000, 0)
       THEN 15 ELSE 0)
    + (IF includes(queryLower, <<"l","u","x","u","r","y">>) /\ hotel.price >= Num(4000, 0)
       THEN 15 ELSE 0)
    + (IF /\ includes(queryLower, <<"m","i","d">>)
          /\ hotel.price >= Num(2500, 0)
          /\ hotel.price <= Num(4500, 0)
       THEN 15 ELSE 0)

\* Price range bonus based on budget keywords
priceScore(queryLower, hotel) ==
      (IF includes(queryLower, <<"b","u","d","g","e","t">>) /\ hotel.price < Num(3000, 0)
       THEN 15 ELSE 0)
    + (IF includes(queryLower, <<"l","u","x","u","r","y">>) /\ hotel.price > Num(4000, 0)
       THEN 15 ELSE 0)
    + (IF /\ includes(queryLower, <<"m","i","d">>)
          /\ hotel.price >= Num(2500, 0)
          /\ hotel.price <= Num(4500, 0)
       THEN 15 ELSE 0)

min(a, b) == IF a <= b THEN a ELSE b

\* the score of one hotel before the ceiling is applied
rawScore(queryLower, hotel) ==
    keywordScore(1, queryLower, hotel)
        + locationScore(queryLower, hotel)
        + priceScore(queryLower, hotel)

\* the score without the ceiling
matchScoreOf_NoCeiling(queryLower, hotel) == rawScore(queryLower, hotel)

\* Math.min(score, 100)
matchScoreOf(queryLower, hotel) == min(rawScore(queryLower, hotel), 100)

\* { ...hotel, matchScore: Math.min(score, 100) }: a new object
scoreHotel(queryLower, hotel) ==
    [matchScore |-> matchScoreOf(queryLower, hotel)] @@ hotel

\* hotels.map(hotel => ...)
scoreAll(queryLower, hotels) ==
    [i \in 1..Len(hotels) |-> scoreHotel(queryLower, hotels[i])]

\* the comparator with its operands exchanged
compareFn_Ascending(a, b) == a.matchScore - b.matchScore

\* (a, b) => b.matchScore - a.matchScore
compareFn(a, b) == b.matchScore - a.matchScore

\* insertion that puts x in front of the elements that compare equal
RECURSIVE insert_TiesFirst(_, _)
insert_TiesFirst(sorted, x) ==
    IF sorted = <<>> THEN <<x>>
    ELSE IF compareFn(Head(sorted), x) >= 0 THEN <<x>> \o sorted
         ELSE <<Head(sorted)>> \o insert_TiesFirst(Tail(sorted), x)

\* x put into an array already in order: before the first element that the
\* comparator places after x, so behind every element that compares equal
RECURSIVE insert(_, _)
insert(sorted, x) ==
    IF sorted = <<>> THEN <<x>>
    ELSE IF compareFn(Head(sorted), x) > 0 THEN <<x>> \o sorted
         ELSE <<Head(sorted)>> \o insert(Tail(sorted), x)

\* Array.prototype.sort with compareFn (stable, ECMAScript 2019)
RECURSIVE sort(_)
sort(arr) ==
    IF arr = <<>> THEN <<>>
    ELSE insert(sort(SubSeq(arr, 1, Len(arr) - 1)), arr[Len(arr)])

-----------------------------------------------------------------------------
(* GET /api/hotels/search *)

\* Limit results to top 20
SearchLimit == 20

\* slice that keeps the whole array
slice_NoLimit(arr, n) == arr

\* arr.slice(0, n)
slice(arr, n) == SubSeq(arr, 1, min(Len(arr), n))

\* the amenity filter looking at the title as well
amenityMatches_WithTitle(amenityLower, hotel) ==
    \/ includes(toLowerCase(hotel.description), amenityLower)
    \/ includes(toLowerCase(hotel.title), amenityLower)
    \/ some(hotel.amenities, LAMBDA a : includes(toLowerCase(a), amenityLower))

\* the amenity filter's predicate
amenityMatches(amenityLower, hotel) ==
    LET desc      == toLowerCase(hotel.description)
        amenities == IF hasAmenitiesArray(hotel) THEN hotel.amenities ELSE <<>>
    IN  \/ includes(desc, amenityLower)
        \/ some(amenities, LAMBDA a : includes(toLowerCase(a), amenityLower))

\* the working set: what Listing.find returns for the request
workingSet(req, docs) == Find(BuildFilter(req), docs)

\* scoring and sorting whether or not a query was supplied
ranked_Always(req, hotels) ==
    sort(scoreAll(toLowerCase(req.query.text), hotels))

\* hotels after the scoring branch
ranked(req, hotels) ==
    IF Truthy(req.query) /\ Len(hotels) > 0
    THEN sort(scoreAll(toLowerCase(req.query.text), hotels))
    ELSE hotels

\* hotels after the amenity branch
amenityFiltered(req, hotels) ==
    IF Truthy(req.amenity)
    THEN SelectSeq(hotels,
             LAMBDA h : amenityMatches(toLowerCase(req.amenity.text), h))
    ELSE hotels

\* a handler that truncates before it applies the amenity filter
searchHotels_SliceFirst(req, docs) ==
    amenityFiltered(req, slice(ranked(req, workingSet(req, docs)), SearchLimit))

\* the hotels of the response
searchHotels(req, docs) ==
    slice(amenityFiltered(req, ranked(req, workingSet(req, docs))), SearchLimit)

\* a handler that answers an empty result with an error
successResponse_EmptyIsError(hotels) ==
    IF hotels = <<>>
    THEN [ status |-> 404, error |-> "No hotels found" ]
    ELSE [ status |-> 200, success |-> TRUE, count |-> Len(hotels),
           hotels |-> hotels ]

\* res.json({ success: true, count: hotels.length, hotels: hotels })
successResponse(hotels) ==
    [ status |-> 200, success |-> TRUE, count |-> Len(hotels),
      hotels |-> hotels ]

\* a catch block that answers with an empty success response
failureResponse_EmptyList ==
    [ status |-> 200, success |-> TRUE, count |-> 0, hotels |-> <<>> ]

\* res.status(500).json({ error: "Failed to search hotels", ... })
failureResponse ==
    [ status |-> 500, error |-> "Failed to search hotels" ]

\* the array find returned, once the handler has finished with it: map builds
\* a new array of new objects and sort reorders that new array, filter and
\* slice return new arrays
candidatesAfterSearch(req, found) == found

\* the collection had the handler saved the scores it computed
collectionAfterSearch_Saved(req, docs) ==
    IF Truthy(req.query)
    THEN scoreAll(toLowerCase(req.query.text), docs)
    ELSE docs

\* the collection once the handler has finished: the handler reads it with
\* find and issues no write
collectionAfterSearch(req, docs) == docs

-----------------------------------------------------------------------------
(* Seeding script (init/index.js, init/data.js) *)

\* sampleListings of data.js: title, description, price and location of
\* each entry, in file order
sampleListings == <<
    [ title       |-> <<"L","u","x","u","r","y"," ","B","e","a","c","h","f","r","o","n","t"," ","V","i","l","l","a"," ","i","n"," ","C","a","l","a","n","g","u","t","e">>,
      description |-> <<"S","t","u","n","n","i","n","g"," ","b","e","a","c","h","f","r","o","n","t"," ","v","i","l","l","a"," ","w","i","t","h"," ","p","r","i","v","a","t","e"," ","p","o","o","l",","," ","f","u","l","l","y"," ","e","q","u","i","p","p","e","d"," ","k","i","t","c","h","e","n",","," ","h","i","g","h","-","s","p","e","e","d"," ","W","i","F","i",","," ","a","i","r"," ","c","o","n","d","i","t","i","o","n","i","n","g",","," ","a","n","d"," ","s","e","c","u","r","e"," ","p","a","r","k","i","n","g","."," ","P","e","r","f","e","c","t"," ","f","o","r"," ","f","a","m","i","l","i","e","s"," ","w","i","t","h"," ","d","i","r","e","c","t"," ","b","e","a","c","h"," ","a","c","c","e","s","s"," ","a","n","d"," ","o","c","e","a","n"," ","v","i","e","w","s",".">>,
      price       |-> Num(3500, 0),
      location    |-> <<"C","a","l","a","n","g","u","t","e",","," ","G","o","a">> ],
    [ title       |-> <<"M","o","d","e","r","n"," ","A","p","a","r","t","m","e","n","t"," ","i","n"," ","P","a","n","a","j","i">>,
      description |-> <<"C","e","n","t","r","a","l","l","y"," ","l","o","c","a","t","e","d"," ","m","o","d","e","r","n"," ","a","p","a","r","t","m","e","n","t"," ","i","n"," ","G","o","a","'","s"," ","c","a","p","i","t","a","l","."," ","F","e","a","t","u","r","e","s"," ","W","i","F","i",","," ","a","i","r"," ","c","o","n","d","i","t","i","o","n","i","n","g",","," ","f","u","l","l","y"," ","e","q","u","i","p","p","e","d"," ","k","i","t","c","h","e","n",","," ","a","n","d"," ","p","a","r","k","i","n","g","."," ","W","a","l","k","i","n","g"," ","d","i","s","t","a","n","c","e"," ","t","o"," ","r","e","s","t","a","u","r","a","n","t","s"," ","a","n","d"," ","s","h","o","p","p","i","n","g",".">>,
      price       |-> Num(1800, 0),
      location    |-> <<"P","a","n","a","j","i",","," ","G","o","a">> ],
    [ title       |-> <<"S","e","a","s","i","d","e"," ","C","o","t","t","a","g","e"," ","i","n"," ","A","n","j","u","n","a">>,
      description |-> <<"C","h","a","r","m","i","n","g"," ","s","e","a","s","i","d","e"," ","c","o","t","t","a","g","e"," ","w","i","t","h"," ","p","r","i","v","a","t","e"," ","g","a","r","d","e","n",","," ","W","i","F","i",","," ","k","i","t","c","h","e","n"," ","f","a","c","i","l","i","t","i","e","s",","," ","a","n","d"," ","p","a","r","k","i","n","g","."," ","C","l","o","s","e"," ","t","o"," ","A","n","j","u","n","a"," ","B","e","a","c","h"," ","a","n","d"," ","f","a","m","o","u","s"," ","f","l","e","a"," ","m","a","r","k","e","t","."," ","P","e","r","f","e","c","t"," ","f","o","r"," ","c","o","u","p","l","e","s",".">>,
      price       |-> Num(2200, 0),
      location    |-> <<"A","n","j","u","n","a",","," ","G","o","a">> ],
    [ title       |-> <<"H","e","r","i","t","a","g","e"," ","P","o","r","t","u","g","u","e","s","e"," ","V","i","l","l","a"," ","i","n"," ","F","o","n","t","a","i","n","h","a","s">>,
      description |-> <<"B","e","a","u","t","i","f","u","l","l","y"," ","r","e","s","t","o","r","e","d"," ","P","o","r","t","u","g","u","e","s","e"," ","c","o","l","o","n","i","a","l"," ","v","i","l","l","a"," ","i","n"," ","O","l","d"," ","G","o","a","."," ","F","e","a","t","u","r","e","s"," ","W","i","F","i",","," ","a","i","r"," ","c","o","n","d","i","t","i","o","n","i","n","g",","," ","p","r","i","v","a","t","e"," ","p","o","o","l",","," ","g","a","r","d","e","n",","," ","a","n","d"," ","p","a","r","k","i","n","g","."," ","E","x","p","e","r","i","e","n","c","e"," ","G","o","a","'","s"," ","r","i","c","h"," ","h","i","s","t","o","r","y",".">>,
      price       |-> Num(4500, 0),
      location    |-> <<"F","o","n","t","a","i","n","h","a","s",","," ","G","o","a">> ],
    [ title       |-> <<"B","e","a","c","h","f","r","o","n","t"," ","R","e","s","o","r","t"," ","i","n"," ","B","a","g","a">>,
      description |-> <<"L","u","x","u","r","y"," ","b","e","a","c","h","f","r","o","n","t"," ","r","e","s","o","r","t"," ","w","i","t","h"," ","i","n","f","i","n","i","t","y"," ","p","o","o","l",","," ","s","p","a",","," ","g","y","m",","," ","W","i","F","i",","," ","a","i","r"," ","c","o","n","d","i","t","i","o","n","i","n","g",","," ","m","u","l","t","i","p","l","e"," ","r","e","s","t","a","u","r","a","n","t","s",","," ","a","n","d"," ","b","e","a","c","h"," ","a","c","c","e","s","s","."," ","P","e","r","f","e","c","t"," ","f","o","r"," ","f","a","m","i","l","i","e","s"," ","a","n","d"," ","c","o","u","p","l","e","s",".">>,
      price       |-> Num(5000, 0),
      location    |-> <<"B","a","g","a",","," ","G","o","a">> ],
    [ title       |-> <<"E","c","o","-","F","r","i","e","n","d","l","y"," ","T","r","e","e","h","o","u","s","e"," ","i","n"," ","S","o","u","t","h"," ","G","o","a">>,
      description |-> <<"U","n","i","q","u","e"," ","e","c","o","-","f","r","i","e","n","d","l","y"," ","t","r","e","e","h","o","u","s","e"," ","r","e","t","r","e","a","t"," ","s","u","r","r","o","u","n","d","e","d"," ","b","y"," ","c","o","c","o","n","u","t"," ","g","r","o","v","e","s","."," ","F","e","a","t","u","r","e","s"," ","W","i","F","i",","," ","o","u","t","d","o","o","r"," ","k","i","t","c","h","e","n",","," ","p","a","r","k","i","n","g",","," ","a","n","d"," ","c","l","o","s","e"," ","t","o"," ","C","o","l","v","a"," ","B","e","a","c","h","."," ","P","e","r","f","e","c","t"," ","f","o","r"," ","n","a","t","u","r","e"," ","l","o","v","e","r","s",".">>,
      price       |-> Num(2800, 0),
      location    |-> <<"S","o","u","t","h"," ","G","o","a">> ],
    [ title       |-> <<"L","u","x","u","r","y"," ","A","p","a","r","t","m","e","n","t"," ","i","n"," ","B","a","n","d","r","a">>,
      description |-> <<"M","o","d","e","r","n"," ","l","u","x","u","r","y"," ","a","p","a","r","t","m","e","n","t"," ","i","n"," ","u","p","s","c","a","l","e"," ","B","a","n","d","r","a","."," ","F","e","a","t","u","r","e","s"," ","W","i","F","i",","," ","a","i","r"," ","c","o","n","d","i","t","i","o","n","i","n","g",","," ","f","u","l","l","y"," ","e","q","u","i","p","p","e","d"," ","k","i","t","c","h","e","n",","," ","g","y","m"," ","a","c","c","e","s","s",","," ","p","a","r","k","i","n","g",","," ","a","n","d"," ","p","r","o","x","i","m","i","t","y"," ","t","o"," ","r","e","s","t","a","u","r","a","n","t","s"," ","a","n","d"," ","b","e","a","c","h","e","s",".">>,
      price       |-> Num(4000, 0),
      location    |-> <<"B","a","n","d","r","a",","," ","M","u","m","b","a","i">> ],
    [ title       |-> <<"H","e","r","i","t","a","g","e"," ","B","u","n","g","a","l","o","w"," ","i","n"," ","C","o","l","a","b","a">>,
      description |-> <<"B","e","a","u","t","i","f","u","l"," ","h","e","r","i","t","a","g","e"," ","b","u","n","g","a","l","o","w"," ","i","n"," ","h","i","s","t","o","r","i","c"," ","C","o","l","a","b","a","."," ","F","e","a","t","u","r","e","s"," ","W","i","F","i",","," ","a","i","r"," ","c","o","n","d","i","t","i","o","n","i","n","g",","," ","g","a","r","d","e","n",","," ","p","a","r","k","i","n","g",","," ","a","n","d"," ","w","a","l","k","i","n","g"," ","d","i","s","t","a","n","c","e"," ","t","o"," ","G","a","t","e","w","a","y"," ","o","f"," ","I","n","d","i","a"," ","a","n","d"," ","r","e","s","t","a","u","r","a","n","t","s",".">>,
      price       |-> Num(3500, 0),
      location    |-> <<"C","o","l","a","b","a",","," ","M","u","m","b","a","i">> ],
    [ title       |-> <<"S","e","a","-","F","a","c","i","n","g"," ","S","t","u","d","i","o"," ","i","n"," ","J","u","h","u">>,
      description |-> <<"C","o","z","y"," ","s","e","a","-","f","a","c","i","n","g"," ","s","t","u","d","i","o"," ","a","p","a","r","t","m","e","n","t"," ","w","i","t","h"," ","W","i","F","i",","," ","a","i","r"," ","c","o","n","d","i","t","i","o","n","i","n","g",","," ","k","i","t","c","h","e","n","e","t","t","e",","," ","a","n","d"," ","p","a","r","k","i","n","g","."," ","D","i","r","e","c","t"," ","v","i","e","w","s"," ","o","f"," ","J","u","h","u"," ","B","e","a","c","h",","," ","p","e","r","f","e","c","t"," ","f","o","r"," ","s","o","l","o"," ","t","r","a","v","e","l","e","r","s",".">>,
      price       |-> Num(2500, 0),
      location    |-> <<"J","u","h","u",","," ","M","u","m","b","a","i">> ],
    [ title       |-> <<"B","u","s","i","n","e","s","s"," ","H","o","t","e","l"," ","i","n"," ","A","n","d","h","e","r","i">>,
      description |-> <<"M","o","d","e","r","n"," ","b","u","s","i","n","e","s","s"," ","h","o","t","e","l"," ","w","i","t","h"," ","W","i","F","i",","," ","a","i","r"," ","c","o","n","d","i","t","i","o","n","i","n","g",","," ","c","o","n","f","e","r","e","n","c","e"," ","f","a","c","i","l","i","t","i","e","s",","," ","g","y","m",","," ","r","e","s","t","a","u","r","a","n","t",","," ","p","a","r","k","i","n","g",","," ","a","n","d"," ","c","l","o","s","e"," ","t","o"," ","a","i","r","p","o","r","t","."," ","P","e","r","f","e","c","t"," ","f","o","r"," ","b","u","s","i","n","e","s","s"," ","t","r","a","v","e","l","e","r","s",".">>,
      price       |-> Num(3000, 0),
      location    |-> <<"A","n","d","h","e","r","i",","," ","M","u","m","b","a","i">> ],
    [ title       |-> <<"L","u","x","u","r","y"," ","H","o","t","e","l"," ","i","n"," ","C","o","n","n","a","u","g","h","t"," ","P","l","a","c","e">>,
      description |-> <<"P","r","e","m","i","u","m"," ","h","o","t","e","l"," ","i","n"," ","h","e","a","r","t"," ","o","f"," ","D","e","l","h","i"," ","w","i","t","h"," ","W","i","F","i",","," ","a","i","r"," ","c","o","n","d","i","t","i","o","n","i","n","g",","," ","m","u","l","t","i","p","l","e"," ","r","e","s","t","a","u","r","a","n","t","s",","," ","s","p","a",","," ","g","y","m",","," ","p","a","r","k","i","n","g",","," ","a","n","d"," ","w","a","l","k","i","n","g"," ","d","i","s","t","a","n","c","e"," ","t","o"," ","s","h","o","p","p","i","n","g"," ","a","n","d"," ","m","e","t","r","o",".">>,
      price       |-> Num(4500, 0),
      location    |-> <<"C","o","n","n","a","u","g","h","t"," ","P","l","a","c","e",","," ","D","e","l","h","i">> ],
    [ title       |-> <<"H","e","r","i","t","a","g","e"," ","H","a","v","e","l","i"," ","i","n"," ","O","l","d"," ","D","e","l","h","i">>,
      description |-> <<"B","e","a","u","t","i","f","u","l","l","y"," ","r","e","s","t","o","r","e","d"," ","h","a","v","e","l","i"," ","i","n"," ","O","l","d"," ","D","e","l","h","i","."," ","F","e","a","t","u","r","e","s"," ","W","i","F","i",","," ","a","i","r"," ","c","o","n","d","i","t","i","o","n","i","n","g",","," ","t","r","a","d","i","t","i","o","n","a","l"," ","c","o","u","r","t","y","a","r","d",","," ","p","a","r","k","i","n","g",","," ","a","n","d"," ","c","l","o","s","e"," ","t","o"," ","R","e","d"," ","F","o","r","t"," ","a","n","d"," ","J","a","m","a"," ","M","a","s","j","i","d",".">>,
      price       |-> Num(2800, 0),
      location    |-> <<"O","l","d"," ","D","e","l","h","i">> ],
    [ title       |-> <<"M","o","d","e","r","n"," ","A","p","a","r","t","m","e","n","t"," ","i","n"," ","G","u","r","g","a","o","n">>,
      description |-> <<"C","o","n","t","e","m","p","o","r","a","r","y"," ","a","p","a","r","t","m","e","n","t"," ","i","n"," ","G","u","r","g","a","o","n"," ","w","i","t","h"," ","W","i","F","i",","," ","a","i","r"," ","c","o","n","d","i","t","i","o","n","i","n","g",","," ","f","u","l","l","y"," ","e","q","u","i","p","p","e","d"," ","k","i","t","c","h","e","n",","," ","g","y","m"," ","a","c","c","e","s","s",","," ","p","a","r","k","i","n","g",","," ","a","n","d"," ","c","l","o","s","e"," ","t","o"," ","b","u","s","i","n","e","s","s"," ","d","i","s","t","r","i","c","t",".">>,
      price       |-> Num(3500, 0),
      location    |-> <<"G","u","r","g","a","o","n",","," ","D","e","l","h","i"," ","N","C","R">> ],
    [ title       |-> <<"R","o","y","a","l"," ","P","a","l","a","c","e"," ","H","o","t","e","l"," ","i","n"," ","J","a","i","p","u","r">>,
      description |-> <<"L","u","x","u","r","y"," ","p","a","l","a","c","e"," ","h","o","t","e","l"," ","w","i","t","h"," ","W","i","F","i",","," ","a","i","r"," ","c","o","n","d","i","t","i","o","n","i","n","g",","," ","m","u","l","t","i","p","l","e"," ","r","e","s","t","a","u","r","a","n","t","s",","," ","s","p","a",","," ","p","o","o","l",","," ","p","a","r","k","i","n","g",","," ","a","n","d"," ","c","l","o","s","e"," ","t","o"," ","C","i","t","y"," ","P","a","l","a","c","e"," ","a","n","d"," ","H","a","w","a"," ","M","a","h","a","l","."," ","E","x","p","e","r","i","e","n","c","e"," ","r","o","y","a","l"," ","h","o","s","p","i","t","a","l","i","t","y",".">>,
      price       |-> Num(5500, 0),
      location    |-> <<"J","a","i","p","u","r",","," ","R","a","j","a","s","t","h","a","n">> ],
    [ title       |-> <<"H","e","r","i","t","a","g","e"," ","H","a","v","e","l","i"," ","i","n"," ","U","d","a","i","p","u","r">>,
      description |-> <<"B","e","a","u","t","i","f","u","l"," ","h","e","r","i","t","a","g","e"," ","h","a","v","e","l","i"," ","o","v","e","r","l","o","o","k","i","n","g"," ","L","a","k","e"," ","P","i","c","h","o","l","a","."," ","F","e","a","t","u","r","e","s"," ","W","i","F","i",","," ","a","i","r"," ","c","o","n","d","i","t","i","o","n","i","n","g",","," ","r","o","o","f","t","o","p"," ","r","e","s","t","a","u","r","a","n","t",","," ","p","a","r","k","i","n","g",","," ","a","n","d"," ","s","t","u","n","n","i","n","g"," ","l","a","k","e"," ","v","i","e","w","s",".">>,
      price       |-> Num(4800, 0),
      location    |-> <<"U","d","a","i","p","u","r",","," ","R","a","j","a","s","t","h","a","n">> ],
    [ title       |-> <<"D","e","s","e","r","t"," ","C","a","m","p"," ","i","n"," ","J","a","i","s","a","l","m","e","r">>,
      description |-> <<"A","u","t","h","e","n","t","i","c"," ","d","e","s","e","r","t"," ","c","a","m","p"," ","e","x","p","e","r","i","e","n","c","e"," ","w","i","t","h"," ","W","i","F","i",","," ","a","i","r"," ","c","o","n","d","i","t","i","o","n","i","n","g",","," ","t","r","a","d","i","t","i","o","n","a","l"," ","m","e","a","l","s",","," ","c","a","m","e","l"," ","r","i","d","e","s",","," ","c","u","l","t","u","r","a","l"," ","p","e","r","f","o","r","m","a","n","c","e","s",","," ","a","n","d"," ","p","a","r","k","i","n","g","."," ","U","n","i","q","u","e"," ","d","e","s","e","r","t"," ","e","x","p","e","r","i","e","n","c","e",".">>,
      price       |-> Num(3200, 0),
      location    |-> <<"J","a","i","s","a","l","m","e","r",","," ","R","a","j","a","s","t","h","a","n">> ],
    [ title       |-> <<"B","l","u","e"," ","C","i","t","y"," ","G","u","e","s","t","h","o","u","s","e"," ","i","n"," ","J","o","d","h","p","u","r">>,
      description |-> <<"C","h","a","r","m","i","n","g"," ","g","u","e","s","t","h","o","u","s","e"," ","i","n"," ","b","l","u","e"," ","c","i","t","y"," ","w","i","t","h"," ","W","i","F","i",","," ","a","i","r"," ","c","o","n","d","i","t","i","o","n","i","n","g",","," ","r","o","o","f","t","o","p"," ","t","e","r","r","a","c","e",","," ","p","a","r","k","i","n","g",","," ","a","n","d"," ","c","l","o","s","e"," ","t","o"," ","M","e","h","r","a","n","g","a","r","h"," ","F","o","r","t","."," ","E","x","p","e","r","i","e","n","c","e"," ","J","o","d","h","p","u","r","'","s"," ","b","l","u","e"," ","h","o","u","s","e","s",".">>,
      price       |-> Num(2200, 0),
      location    |-> <<"J","o","d","h","p","u","r",","," ","R","a","j","a","s","t","h","a","n">> ],
    [ title       |-> <<"H","o","u","s","e","b","o","a","t"," ","i","n"," ","A","l","l","e","p","p","e","y"," ","B","a","c","k","w","a","t","e","r","s">>,
      description |-> <<"T","r","a","d","i","t","i","o","n","a","l"," ","K","e","r","a","l","a"," ","h","o","u","s","e","b","o","a","t"," ","w","i","t","h"," ","W","i","F","i",","," ","a","i","r"," ","c","o","n","d","i","t","i","o","n","i","n","g",","," ","f","u","l","l","y"," ","e","q","u","i","p","p","e","d"," ","k","i","t","c","h","e","n",","," ","p","r","i","v","a","t","e"," ","d","e","c","k",","," ","a","n","d"," ","p","a","r","k","i","n","g","."," ","E","x","p","e","r","i","e","n","c","e"," ","K","e","r","a","l","a","'","s"," ","f","a","m","o","u","s"," ","b","a","c","k","w","a","t","e","r","s",".">>,
      price       |-> Num(4500, 0),
      location    |-> <<"A","l","l","e","p","p","e","y",","," ","K","e","r","a","l","a">> ],
    [ title       |-> <<"B","e","a","c","h"," ","R","e","s","o","r","t"," ","i","n"," ","K","o","v","a","l","a","m">>,
      description |-> <<"L","u","x","u","r","y"," ","b","e","a","c","h"," ","r","e","s","o","r","t"," ","w","i","t","h"," ","W","i","F","i",","," ","a","i","r"," ","c","o","n","d","i","t","i","o","n","i","n","g",","," ","p","r","i","v","a","t","e"," ","b","e","a","c","h"," ","a","c","c","e","s","s",","," ","p","o","o","l",","," ","s","p","a",","," ","m","u","l","t","i","p","l","e"," ","r","e","s","t","a","u","r","a","n","t","s",","," ","p","a","r","k","i","n","g",","," ","a","n","d"," ","A","y","u","r","v","e","d","i","c"," ","t","r","e","a","t","m","e","n","t","s",".">>,
      price       |-> Num(5000, 0),
      location    |-> <<"K","o","v","a","l","a","m",","," ","K","e","r","a","l","a">> ],
    [ title       |-> <<"H","i","l","l"," ","S","t","a","t","i","o","n"," ","R","e","s","o","r","t"," ","i","n"," ","M","u","n","n","a","r">>,
      description |-> <<"M","o","u","n","t","a","i","n"," ","r","e","s","o","r","t"," ","i","n"," ","t","e","a"," ","c","o","u","n","t","r","y"," ","w","i","t","h"," ","W","i","F","i",","," ","a","i","r"," ","c","o","n","d","i","t","i","o","n","i","n","g",","," ","g","a","r","d","e","n",","," ","r","e","s","t","a","u","r","a","n","t",","," ","p","a","r","k","i","n","g",","," ","a","n","d"," ","s","t","u","n","n","i","n","g"," ","t","e","a"," ","p","l","a","n","t","a","t","i","o","n"," ","v","i","e","w","s","."," ","P","e","r","f","e","c","t"," ","f","o","r"," ","n","a","t","u","r","e"," ","l","o","v","e","r","s",".">>,
      price       |-> Num(3800, 0),
      location    |-> <<"M","u","n","n","a","r",","," ","K","e","r","a","l","a">> ],
    [ title       |-> <<"M","o","u","n","t","a","i","n"," ","C","a","b","i","n"," ","i","n"," ","M","a","n","a","l","i">>,
      description |-> <<"C","o","z","y"," ","m","o","u","n","t","a","i","n"," ","c","a","b","i","n"," ","w","i","t","h"," ","W","i","F","i",","," ","h","e","a","t","i","n","g",","," ","k","i","t","c","h","e","n",","," ","p","a","r","k","i","n","g",","," ","a","n","d"," ","s","t","u","n","n","i","n","g"," ","m","o","u","n","t","a","i","n"," ","v","i","e","w","s","."," ","C","l","o","s","e"," ","t","o"," ","S","o","l","a","n","g"," ","V","a","l","l","e","y"," ","a","n","d"," ","a","d","v","e","n","t","u","r","e"," ","a","c","t","i","v","i","t","i","e","s",".">>,
      price       |-> Num(2800, 0),
      location    |-> <<"M","a","n","a","l","i",","," ","H","i","m","a","c","h","a","l"," ","P","r","a","d","e","s","h">> ],
    [ title       |-> <<"H","e","r","i","t","a","g","e"," ","H","o","t","e","l"," ","i","n"," ","S","h","i","m","l","a">>,
      description |-> <<"B","e","a","u","t","i","f","u","l"," ","h","e","r","i","t","a","g","e"," ","h","o","t","e","l"," ","w","i","t","h"," ","W","i","F","i",","," ","h","e","a","t","i","n","g",","," ","m","u","l","t","i","p","l","e"," ","r","e","s","t","a","u","r","a","n","t","s",","," ","p","a","r","k","i","n","g",","," ","a","n","d"," ","c","o","l","o","n","i","a","l"," ","c","h","a","r","m","."," ","C","l","o","s","e"," ","t","o"," ","M","a","l","l"," ","R","o","a","d"," ","a","n","d"," ","S","h","i","m","l","a"," ","R","i","d","g","e",".">>,
      price       |-> Num(3500, 0),
      location    |-> <<"S","h","i","m","l","a",","," ","H","i","m","a","c","h","a","l"," ","P","r","a","d","e","s","h">> ],
    [ title       |-> <<"M","o","u","n","t","a","i","n"," ","V","i","e","w"," ","R","e","s","o","r","t"," ","i","n"," ","D","h","a","r","a","m","s","h","a","l","a">>,
      description |-> <<"P","e","a","c","e","f","u","l"," ","r","e","s","o","r","t"," ","w","i","t","h"," ","W","i","F","i",","," ","h","e","a","t","i","n","g",","," ","g","a","r","d","e","n",","," ","r","e","s","t","a","u","r","a","n","t",","," ","p","a","r","k","i","n","g",","," ","a","n","d"," ","s","t","u","n","n","i","n","g"," ","v","i","e","w","s"," ","o","f"," ","D","h","a","u","l","a","d","h","a","r"," ","r","a","n","g","e","."," ","C","l","o","s","e"," ","t","o"," ","D","a","l","a","i"," ","L","a","m","a"," ","T","e","m","p","l","e",".">>,
      price       |-> Num(3200, 0),
      location    |-> <<"D","h","a","r","a","m","s","h","a","l","a",","," ","H","i","m","a","c","h","a","l"," ","P","r","a","d","e","s","h">> ],
    [ title       |-> <<"Y","o","g","a"," ","R","e","t","r","e","a","t"," ","i","n"," ","R","i","s","h","i","k","e","s","h">>,
      description |-> <<"P","e","a","c","e","f","u","l"," ","y","o","g","a"," ","r","e","t","r","e","a","t"," ","w","i","t","h"," ","W","i","F","i",","," ","a","i","r"," ","c","o","n","d","i","t","i","o","n","i","n","g",","," ","y","o","g","a"," ","h","a","l","l",","," ","v","e","g","e","t","a","r","i","a","n"," ","m","e","a","l","s",","," ","p","a","r","k","i","n","g",","," ","a","n","d"," ","c","l","o","s","e"," ","t","o"," ","G","a","n","g","e","s","."," ","P","e","r","f","e","c","t"," ","f","o","r"," ","s","p","i","r","i","t","u","a","l"," ","s","e","e","k","e","r","s",".">>,
      price       |-> Num(2500, 0),
      location    |-> <<"R","i","s","h","i","k","e","s","h",","," ","U","t","t","a","r","a","k","h","a","n","d">> ],
    [ title       |-> <<"M","o","u","n","t","a","i","n"," ","L","o","d","g","e"," ","i","n"," ","M","u","s","s","o","o","r","i","e">>,
      description |-> <<"C","h","a","r","m","i","n","g"," ","m","o","u","n","t","a","i","n"," ","l","o","d","g","e"," ","w","i","t","h"," ","W","i","F","i",","," ","h","e","a","t","i","n","g",","," ","g","a","r","d","e","n",","," ","r","e","s","t","a","u","r","a","n","t",","," ","p","a","r","k","i","n","g",","," ","a","n","d"," ","s","t","u","n","n","i","n","g"," ","v","i","e","w","s"," ","o","f"," ","D","o","o","n"," ","V","a","l","l","e","y","."," ","C","l","o","s","e"," ","t","o"," ","M","a","l","l"," ","R","o","a","d",".">>,
      price       |-> Num(3000, 0),
      location    |-> <<"M","u","s","s","o","o","r","i","e",","," ","U","t","t","a","r","a","k","h","a","n","d">> ],
    [ title       |-> <<"A","d","v","e","n","t","u","r","e"," ","R","e","s","o","r","t"," ","i","n"," ","N","a","i","n","i","t","a","l">>,
      description |-> <<"L","a","k","e","s","i","d","e"," ","r","e","s","o","r","t"," ","w","i","t","h"," ","W","i","F","i",","," ","h","e","a","t","i","n","g",","," ","l","a","k","e"," ","a","c","c","e","s","s",","," ","b","o","a","t","i","n","g",","," ","r","e","s","t","a","u","r","a","n","t",","," ","p","a","r","k","i","n","g",","," ","a","n","d"," ","c","l","o","s","e"," ","t","o"," ","N","a","i","n","i"," ","L","a","k","e","."," ","P","e","r","f","e","c","t"," ","f","o","r"," ","f","a","m","i","l","i","e","s",".">>,
      price       |-> Num(3200, 0),
      location    |-> <<"N","a","i","n","i","t","a","l",","," ","U","t","t","a","r","a","k","h","a","n","d">> ],
    [ title       |-> <<"B","e","a","c","h"," ","R","e","s","o","r","t"," ","i","n"," ","M","a","h","a","b","a","l","i","p","u","r","a","m">>,
      description |-> <<"L","u","x","u","r","y"," ","b","e","a","c","h"," ","r","e","s","o","r","t"," ","w","i","t","h"," ","W","i","F","i",","," ","a","i","r"," ","c","o","n","d","i","t","i","o","n","i","n","g",","," ","p","r","i","v","a","t","e"," ","b","e","a","c","h",","," ","p","o","o","l",","," ","s","p","a",","," ","r","e","s","t","a","u","r","a","n","t",","," ","p","a","r","k","i","n","g",","," ","a","n","d"," ","c","l","o","s","e"," ","t","o"," ","U","N","E","S","C","O"," ","h","e","r","i","t","a","g","e"," ","s","i","t","e","s",".">>,
      price       |-> Num(4500, 0),
      location    |-> <<"M","a","h","a","b","a","l","i","p","u","r","a","m",","," ","T","a","m","i","l"," ","N","a","d","u">> ],
    [ title       |-> <<"H","i","l","l"," ","S","t","a","t","i","o","n"," ","H","o","t","e","l"," ","i","n"," ","O","o","t","y">>,
      description |-> <<"C","h","a","r","m","i","n","g"," ","h","i","l","l"," ","s","t","a","t","i","o","n"," ","h","o","t","e","l"," ","w","i","t","h"," ","W","i","F","i",","," ","h","e","a","t","i","n","g",","," ","g","a","r","d","e","n",","," ","r","e","s","t","a","u","r","a","n","t",","," ","p","a","r","k","i","n","g",","," ","a","n","d"," ","s","t","u","n","n","i","n","g"," ","N","i","l","g","i","r","i"," ","m","o","u","n","t","a","i","n"," ","v","i","e","w","s","."," ","C","l","o","s","e"," ","t","o"," ","O","o","t","y"," ","L","a","k","e",".">>,
      price       |-> Num(3000, 0),
      location    |-> <<"O","o","t","y",","," ","T","a","m","i","l"," ","N","a","d","u">> ],
    [ title       |-> <<"B","e","a","c","h","f","r","o","n","t"," ","V","i","l","l","a"," ","i","n"," ","P","o","n","d","i","c","h","e","r","r","y">>,
      description |-> <<"F","r","e","n","c","h"," ","c","o","l","o","n","i","a","l"," ","v","i","l","l","a"," ","w","i","t","h"," ","W","i","F","i",","," ","a","i","r"," ","c","o","n","d","i","t","i","o","n","i","n","g",","," ","p","r","i","v","a","t","e"," ","p","o","o","l",","," ","g","a","r","d","e","n",","," ","p","a","r","k","i","n","g",","," ","a","n","d"," ","c","l","o","s","e"," ","t","o"," ","P","r","o","m","e","n","a","d","e"," ","B","e","a","c","h","."," ","E","x","p","e","r","i","e","n","c","e"," ","P","o","n","d","i","c","h","e","r","r","y","'","s"," ","F","r","e","n","c","h"," ","Q","u","a","r","t","e","r",".">>,
      price       |-> Num(4000, 0),
      location    |-> <<"P","o","n","d","i","c","h","e","r","r","y">> ],
    [ title       |-> <<"L","u","x","u","r","y"," ","S","e","r","v","i","c","e","d"," ","A","p","a","r","t","m","e","n","t"," ","i","n"," ","K","o","r","a","m","a","n","g","a","l","a">>,
      description |-> <<"M","o","d","e","r","n"," ","s","e","r","v","i","c","e","d"," ","a","p","a","r","t","m","e","n","t"," ","i","n"," ","t","e","c","h"," ","h","u","b"," ","K","o","r","a","m","a","n","g","a","l","a","."," ","F","e","a","t","u","r","e","s"," ","W","i","F","i",","," ","a","i","r"," ","c","o","n","d","i","t","i","o","n","i","n","g",","," ","f","u","l","l","y"," ","e","q","u","i","p","p","e","d"," ","k","i","t","c","h","e","n",","," ","g","y","m",","," ","p","a","r","k","i","n","g",","," ","a","n","d"," ","c","l","o","s","e"," ","t","o"," ","I","T"," ","p","a","r","k","s",".">>,
      price       |-> Num(3800, 0),
      location    |-> <<"K","o","r","a","m","a","n","g","a","l","a",","," ","B","a","n","g","a","l","o","r","e">> ],
    [ title       |-> <<"M","o","d","e","r","n"," ","S","t","u","d","i","o"," ","i","n"," ","I","n","d","i","r","a","n","a","g","a","r">>,
      description |-> <<"S","t","y","l","i","s","h"," ","s","t","u","d","i","o"," ","a","p","a","r","t","m","e","n","t"," ","w","i","t","h"," ","W","i","F","i",","," ","a","i","r"," ","c","o","n","d","i","t","i","o","n","i","n","g",","," ","k","i","t","c","h","e","n","e","t","t","e",","," ","p","a","r","k","i","n","g",","," ","a","n","d"," ","c","l","o","s","e"," ","t","o"," ","r","e","s","t","a","u","r","a","n","t","s"," ","a","n","d"," ","n","i","g","h","t","l","i","f","e","."," ","P","e","r","f","e","c","t"," ","f","o","r"," ","y","o","u","n","g"," ","p","r","o","f","e","s","s","i","o","n","a","l","s",".">>,
      price       |-> Num(2200, 0),
      location    |-> <<"I","n","d","i","r","a","n","a","g","a","r",","," ","B","a","n","g","a","l","o","r","e">> ],
    [ title       |-> <<"L","u","x","u","r","y"," ","H","o","t","e","l"," ","i","n"," ","H","i","t","e","c","h"," ","C","i","t","y">>,
      description |-> <<"M","o","d","e","r","n"," ","l","u","x","u","r","y"," ","h","o","t","e","l"," ","i","n"," ","t","e","c","h"," ","h","u","b"," ","w","i","t","h"," ","W","i","F","i",","," ","a","i","r"," ","c","o","n","d","i","t","i","o","n","i","n","g",","," ","m","u","l","t","i","p","l","e"," ","r","e","s","t","a","u","r","a","n","t","s",","," ","s","p","a",","," ","g","y","m",","," ","p","o","o","l",","," ","p","a","r","k","i","n","g",","," ","a","n","d"," ","c","l","o","s","e"," ","t","o"," ","I","T"," ","p","a","r","k","s",".">>,
      price       |-> Num(4200, 0),
      location    |-> <<"H","i","t","e","c","h"," ","C","i","t","y",","," ","H","y","d","e","r","a","b","a","d">> ],
    [ title       |-> <<"H","e","r","i","t","a","g","e"," ","P","a","l","a","c","e"," ","H","o","t","e","l"," ","n","e","a","r"," ","C","h","a","r","m","i","n","a","r">>,
      description |-> <<"B","e","a","u","t","i","f","u","l"," ","h","e","r","i","t","a","g","e"," ","p","a","l","a","c","e"," ","h","o","t","e","l"," ","w","i","t","h"," ","W","i","F","i",","," ","a","i","r"," ","c","o","n","d","i","t","i","o","n","i","n","g",","," ","m","u","l","t","i","p","l","e"," ","r","e","s","t","a","u","r","a","n","t","s",","," ","g","a","r","d","e","n",","," ","p","a","r","k","i","n","g",","," ","a","n","d"," ","c","l","o","s","e"," ","t","o"," ","C","h","a","r","m","i","n","a","r"," ","a","n","d"," ","O","l","d"," ","C","i","t","y",".">>,
      price       |-> Num(3800, 0),
      location    |-> <<"O","l","d"," ","C","i","t","y",","," ","H","y","d","e","r","a","b","a","d">> ],
    [ title       |-> <<"L","u","x","u","r","y"," ","H","o","t","e","l"," ","n","e","a","r"," ","T","a","j"," ","M","a","h","a","l">>,
      description |-> <<"P","r","e","m","i","u","m"," ","h","o","t","e","l"," ","n","e","a","r"," ","T","a","j"," ","M","a","h","a","l"," ","w","i","t","h"," ","W","i","F","i",","," ","a","i","r"," ","c","o","n","d","i","t","i","o","n","i","n","g",","," ","m","u","l","t","i","p","l","e"," ","r","e","s","t","a","u","r","a","n","t","s",","," ","s","p","a",","," ","p","o","o","l",","," ","p","a","r","k","i","n","g",","," ","a","n","d"," ","c","l","o","s","e"," ","t","o"," ","A","g","r","a"," ","F","o","r","t","."," ","P","e","r","f","e","c","t"," ","f","o","r"," ","t","o","u","r","i","s","t","s",".">>,
      price       |-> Num(4500, 0),
      location    |-> <<"A","g","r","a",","," ","U","t","t","a","r"," ","P","r","a","d","e","s","h">> ],
    [ title       |-> <<"S","p","i","r","i","t","u","a","l"," ","G","u","e","s","t","h","o","u","s","e"," ","i","n"," ","V","a","r","a","n","a","s","i">>,
      description |-> <<"S","i","m","p","l","e"," ","g","u","e","s","t","h","o","u","s","e"," ","n","e","a","r"," ","G","a","n","g","e","s"," ","w","i","t","h"," ","W","i","F","i",","," ","a","i","r"," ","c","o","n","d","i","t","i","o","n","i","n","g",","," ","r","o","o","f","t","o","p"," ","t","e","r","r","a","c","e",","," ","v","e","g","e","t","a","r","i","a","n"," ","m","e","a","l","s",","," ","p","a","r","k","i","n","g",","," ","a","n","d"," ","c","l","o","s","e"," ","t","o"," ","g","h","a","t","s","."," ","P","e","r","f","e","c","t"," ","f","o","r"," ","s","p","i","r","i","t","u","a","l"," ","e","x","p","e","r","i","e","n","c","e",".">>,
      price       |-> Num(1800, 0),
      location    |-> <<"V","a","r","a","n","a","s","i",","," ","U","t","t","a","r"," ","P","r","a","d","e","s","h">> ],
    [ title       |-> <<"B","e","a","c","h"," ","R","e","s","o","r","t"," ","i","n"," ","H","a","v","e","l","o","c","k"," ","I","s","l","a","n","d">>,
      description |-> <<"L","u","x","u","r","y"," ","b","e","a","c","h"," ","r","e","s","o","r","t"," ","w","i","t","h"," ","W","i","F","i",","," ","a","i","r"," ","c","o","n","d","i","t","i","o","n","i","n","g",","," ","p","r","i","v","a","t","e"," ","b","e","a","c","h",","," ","p","o","o","l",","," ","s","p","a",","," ","r","e","s","t","a","u","r","a","n","t",","," ","p","a","r","k","i","n","g",","," ","a","n","d"," ","c","l","o","s","e"," ","t","o"," ","R","a","d","h","a","n","a","g","a","r"," ","B","e","a","c","h","."," ","P","e","r","f","e","c","t"," ","f","o","r"," ","c","o","u","p","l","e","s",".">>,
      price       |-> Num(5500, 0),
      location    |-> <<"H","a","v","e","l","o","c","k"," ","I","s","l","a","n","d",","," ","A","n","d","a","m","a","n">> ],
    [ title       |-> <<"B","e","a","c","h","f","r","o","n","t"," ","V","i","l","l","a"," ","i","n"," ","P","o","r","t"," ","B","l","a","i","r">>,
      description |-> <<"S","t","u","n","n","i","n","g"," ","b","e","a","c","h","f","r","o","n","t"," ","v","i","l","l","a"," ","w","i","t","h"," ","W","i","F","i",","," ","a","i","r"," ","c","o","n","d","i","t","i","o","n","i","n","g",","," ","p","r","i","v","a","t","e"," ","p","o","o","l",","," ","f","u","l","l","y"," ","e","q","u","i","p","p","e","d"," ","k","i","t","c","h","e","n",","," ","p","a","r","k","i","n","g",","," ","a","n","d"," ","c","l","o","s","e"," ","t","o"," ","C","e","l","l","u","l","a","r"," ","J","a","i","l",".">>,
      price       |-> Num(4800, 0),
      location    |-> <<"P","o","r","t"," ","B","l","a","i","r",","," ","A","n","d","a","m","a","n">> ],
    [ title       |-> <<"B","e","a","c","h"," ","R","e","s","o","r","t"," ","i","n"," ","G","o","k","a","r","n","a">>,
      description |-> <<"P","e","a","c","e","f","u","l"," ","b","e","a","c","h"," ","r","e","s","o","r","t"," ","w","i","t","h"," ","W","i","F","i",","," ","a","i","r"," ","c","o","n","d","i","t","i","o","n","i","n","g",","," ","p","r","i","v","a","t","e"," ","b","e","a","c","h"," ","a","c","c","e","s","s",","," ","r","e","s","t","a","u","r","a","n","t",","," ","p","a","r","k","i","n","g",","," ","a","n","d"," ","c","l","o","s","e"," ","t","o"," ","O","m"," ","B","e","a","c","h","."," ","P","e","r","f","e","c","t"," ","f","o","r"," ","s","p","i","r","i","t","u","a","l"," ","b","e","a","c","h"," ","e","x","p","e","r","i","e","n","c","e",".">>,
      price       |-> Num(2500, 0),
      location    |-> <<"G","o","k","a","r","n","a",","," ","K","a","r","n","a","t","a","k","a">> ],
    [ title       |-> <<"H","i","l","l"," ","S","t","a","t","i","o","n"," ","H","o","t","e","l"," ","i","n"," ","C","o","o","r","g">>,
      description |-> <<"C","h","a","r","m","i","n","g"," ","h","i","l","l"," ","s","t","a","t","i","o","n"," ","h","o","t","e","l"," ","w","i","t","h"," ","W","i","F","i",","," ","h","e","a","t","i","n","g",","," ","g","a","r","d","e","n",","," ","r","e","s","t","a","u","r","a","n","t",","," ","p","a","r","k","i","n","g",","," ","a","n","d"," ","s","t","u","n","n","i","n","g"," ","c","o","f","f","e","e"," ","p","l","a","n","t","a","t","i","o","n"," ","v","i","e","w","s","."," ","P","e","r","f","e","c","t"," ","f","o","r"," ","n","a","t","u","r","e"," ","l","o","v","e","r","s",".">>,
      price       |-> Num(3200, 0),
      location    |-> <<"C","o","o","r","g",","," ","K","a","r","n","a","t","a","k","a">> ],
    [ title       |-> <<"H","e","r","i","t","a","g","e"," ","H","o","t","e","l"," ","i","n"," ","M","y","s","o","r","e">>,
      description |-> <<"B","e","a","u","t","i","f","u","l"," ","h","e","r","i","t","a","g","e"," ","h","o","t","e","l"," ","w","i","t","h"," ","W","i","F","i",","," ","a","i","r"," ","c","o","n","d","i","t","i","o","n","i","n","g",","," ","g","a","r","d","e","n",","," ","r","e","s","t","a","u","r","a","n","t",","," ","p","a","r","k","i","n","g",","," ","a","n","d"," ","c","l","o","s","e"," ","t","o"," ","M","y","s","o","r","e"," ","P","a","l","a","c","e","."," ","E","x","p","e","r","i","e","n","c","e"," ","r","o","y","a","l"," ","K","a","r","n","a","t","a","k","a",".">>,
      price       |-> Num(3000, 0),
      location    |-> <<"M","y","s","o","r","e",","," ","K","a","r","n","a","t","a","k","a">> ],
    [ title       |-> <<"B","e","a","c","h","f","r","o","n","t"," ","R","e","s","o","r","t"," ","i","n"," ","P","u","r","i">>,
      description |-> <<"L","u","x","u","r","y"," ","b","e","a","c","h","f","r","o","n","t"," ","r","e","s","o","r","t"," ","w","i","t","h"," ","W","i","F","i",","," ","a","i","r"," ","c","o","n","d","i","t","i","o","n","i","n","g",","," ","p","r","i","v","a","t","e"," ","b","e","a","c","h",","," ","p","o","o","l",","," ","s","p","a",","," ","r","e","s","t","a","u","r","a","n","t",","," ","p","a","r","k","i","n","g",","," ","a","n","d"," ","c","l","o","s","e"," ","t","o"," ","J","a","g","a","n","n","a","t","h"," ","T","e","m","p","l","e",".">>,
      price       |-> Num(3800, 0),
      location    |-> <<"P","u","r","i",","," ","O","d","i","s","h","a">> ],
    [ title       |-> <<"H","e","r","i","t","a","g","e"," ","H","a","v","e","l","i"," ","i","n"," ","V","a","d","o","d","a","r","a">>,
      description |-> <<"B","e","a","u","t","i","f","u","l"," ","h","e","r","i","t","a","g","e"," ","h","a","v","e","l","i"," ","w","i","t","h"," ","W","i","F","i",","," ","a","i","r"," ","c","o","n","d","i","t","i","o","n","i","n","g",","," ","g","a","r","d","e","n",","," ","r","e","s","t","a","u","r","a","n","t",","," ","p","a","r","k","i","n","g",","," ","a","n","d"," ","c","l","o","s","e"," ","t","o"," ","L","a","x","m","i"," ","V","i","l","a","s"," ","P","a","l","a","c","e","."," ","E","x","p","e","r","i","e","n","c","e"," ","r","o","y","a","l"," ","G","u","j","a","r","a","t",".">>,
      price       |-> Num(2800, 0),
      location    |-> <<"V","a","d","o","d","a","r","a",","," ","G","u","j","a","r","a","t">> ],
    [ title       |-> <<"B","e","a","c","h"," ","R","e","s","o","r","t"," ","i","n"," ","D","i","u">>,
      description |-> <<"L","u","x","u","r","y"," ","b","e","a","c","h"," ","r","e","s","o","r","t"," ","w","i","t","h"," ","W","i","F","i",","," ","a","i","r"," ","c","o","n","d","i","t","i","o","n","i","n","g",","," ","p","r","i","v","a","t","e"," ","b","e","a","c","h",","," ","p","o","o","l",","," ","s","p","a",","," ","r","e","s","t","a","u","r","a","n","t",","," ","p","a","r","k","i","n","g",","," ","a","n","d"," ","c","l","o","s","e"," ","t","o"," ","D","i","u"," ","F","o","r","t",".">>,
      price       |-> Num(4000, 0),
      location    |-> <<"D","i","u",","," ","G","u","j","a","r","a","t">> ],
    [ title       |-> <<"M","o","u","n","t","a","i","n"," ","R","e","s","o","r","t"," ","i","n"," ","A","u","l","i">>,
      description |-> <<"S","k","i"," ","r","e","s","o","r","t"," ","w","i","t","h"," ","W","i","F","i",","," ","h","e","a","t","i","n","g",","," ","s","k","i"," ","f","a","c","i","l","i","t","i","e","s",","," ","r","e","s","t","a","u","r","a","n","t",","," ","p","a","r","k","i","n","g",","," ","a","n","d"," ","s","t","u","n","n","i","n","g"," ","v","i","e","w","s"," ","o","f"," ","N","a","n","d","a"," ","D","e","v","i","."," ","P","e","r","f","e","c","t"," ","f","o","r"," ","a","d","v","e","n","t","u","r","e"," ","e","n","t","h","u","s","i","a","s","t","s",".">>,
      price       |-> Num(4000, 0),
      location    |-> <<"A","u","l","i",","," ","U","t","t","a","r","a","k","h","a","n","d">> ],
    [ title       |-> <<"H","e","r","i","t","a","g","e"," ","P","a","l","a","c","e"," ","i","n"," ","B","i","k","a","n","e","r">>,
      description |-> <<"R","o","y","a","l"," ","p","a","l","a","c","e"," ","h","o","t","e","l"," ","w","i","t","h"," ","W","i","F","i",","," ","a","i","r"," ","c","o","n","d","i","t","i","o","n","i","n","g",","," ","m","u","l","t","i","p","l","e"," ","r","e","s","t","a","u","r","a","n","t","s",","," ","s","p","a",","," ","p","o","o","l",","," ","p","a","r","k","i","n","g",","," ","a","n","d"," ","c","l","o","s","e"," ","t","o"," ","J","u","n","a","g","a","r","h"," ","F","o","r","t","."," ","E","x","p","e","r","i","e","n","c","e"," ","r","o","y","a","l"," ","R","a","j","a","s","t","h","a","n",".">>,
      price       |-> Num(4500, 0),
      location    |-> <<"B","i","k","a","n","e","r",","," ","R","a","j","a","s","t","h","a","n">> ],
    [ title       |-> <<"H","i","l","l"," ","S","t","a","t","i","o","n"," ","H","o","t","e","l"," ","i","n"," ","M","o","u","n","t"," ","A","b","u">>,
      description |-> <<"C","h","a","r","m","i","n","g"," ","h","i","l","l"," ","s","t","a","t","i","o","n"," ","h","o","t","e","l"," ","w","i","t","h"," ","W","i","F","i",","," ","h","e","a","t","i","n","g",","," ","g","a","r","d","e","n",","," ","r","e","s","t","a","u","r","a","n","t",","," ","p","a","r","k","i","n","g",","," ","a","n","d"," ","c","l","o","s","e"," ","t","o"," ","D","i","l","w","a","r","a"," ","T","e","m","p","l","e","s","."," ","P","e","r","f","e","c","t"," ","f","o","r"," ","s","p","i","r","i","t","u","a","l"," ","r","e","t","r","e","a","t",".">>,
      price       |-> Num(2800, 0),
      location    |-> <<"M","o","u","n","t"," ","A","b","u",","," ","R","a","j","a","s","t","h","a","n">> ],
    [ title       |-> <<"B","e","a","c","h","f","r","o","n","t"," ","V","i","l","l","a"," ","i","n"," ","A","l","i","b","a","u","g">>,
      description |-> <<"S","t","u","n","n","i","n","g"," ","b","e","a","c","h","f","r","o","n","t"," ","v","i","l","l","a"," ","w","i","t","h"," ","W","i","F","i",","," ","a","i","r"," ","c","o","n","d","i","t","i","o","n","i","n","g",","," ","p","r","i","v","a","t","e"," ","p","o","o","l",","," ","f","u","l","l","y"," ","e","q","u","i","p","p","e","d"," ","k","i","t","c","h","e","n",","," ","p","a","r","k","i","n","g",","," ","a","n","d"," ","c","l","o","s","e"," ","t","o"," ","A","l","i","b","a","u","g"," ","B","e","a","c","h","."," ","P","e","r","f","e","c","t"," ","w","e","e","k","e","n","d"," ","g","e","t","a","w","a","y"," ","f","r","o","m"," ","M","u","m","b","a","i",".">>,
      price       |-> Num(4200, 0),
      location    |-> <<"A","l","i","b","a","u","g",","," ","M","a","h","a","r","a","s","h","t","r","a">> ] >>

\* the seeding script is started at most this many times
MaxSeedRuns == 2

\* the document insertMany stores for entry e under identifier id: the
\* schema default gives it an empty amenities array
SeedDocument(id, e) ==
    [ id           |-> id,
      title        |-> e.title,
      description  |-> e.description,
      location     |-> e.location,
      price        |-> e.price,
      hasAmenities |-> TRUE,
      amenities    |-> <<>> ]

\* deleteMany that removes nothing
deleteMany_Nothing(docs) == docs

\* Listing.deleteMany({}): the collection without any document
deleteMany(docs) == <<>>

\* Listing.insertMany(data): the collection with one new document per entry
\* appended in order, identifiers from firstId on
insertMany(docs, data, firstId) ==
    docs \o [i \in 1..Len(data) |-> SeedDocument(firstId + i - 1, data[i])]

-----------------------------------------------------------------------------
(* Requests *)

Absent == [given |-> FALSE, text |-> <<>>]

Given(text) == [given |-> TRUE, text |-> text]

Queries ==
    { Absent, Given(<<>>),
      Given(<<"b","u","d","g","e","t"," ","p","o","o","l">>),
      Given(<<"L","u","x","u","r","y"," ","s","e","a"," ","p","o","o","l"," ","s","p","a"," ","c","a","l","a","n","g","u","t","e">>),
      Given(<<"m","i","d"," ","g","o","a">>),
      Given(<<"g","o","a"," ","b","a","g","a">>),
      Given(<<"l","u","x","u","r","y"," ","p","o","o","l">>),
      Given(<<"b","u","d","g","e","t"," ","l","u","x","u","r","y"," ","m","i","d">>) }

Locations ==
    { Absent, Given(<<"g","o","a">>), Given(<<".">>),
      Given(<<"B","a","g","a">>) }

MaxPrices ==
    { Absent, Given(<<"3","0","0","0">>), Given(<<"2","5","0","0",".","5">>),
      Given(<<"0">>) }

Amenities ==
    { Absent, Given(<<"p","o","o","l">>), Given(<<"W","I","F","I">>) }

Req(q, l, p, a) == [query |-> q, location |-> l, maxPrice |-> p, amenity |-> a]

\* the requests the model sends: every query alone, every filter alone and
\* with a query, and all parameters together
Requests ==
    { Req(q, Absent, Absent, Absent) : q \in Queries }
    \cup { Req(q, l, Absent, Absent) :
              q \in {Absent, Given(<<"m","i","d"," ","g","o","a">>)}, l \in Locations }
    \cup { Req(q, Absent, p, Absent) :
              q \in {Absent, Given(<<"b","u","d","g","e","t"," ","p","o","o","l">>)}, p \in MaxPrices }
    \cup { Req(q, Absent, Absent, a) :
              q \in {Absent, Given(<<"b","u","d","g","e","t"," ","p","o","o","l">>), Given(<<"m","i","d"," ","g","o","a">>)},
              a \in Amenities }
    \cup { Req(q, Given(<<"g","o","a">>), Given(<<"3","0","0","0">>), Given(<<"p","o","o","l">>)) :
              q \in {Absent, Given(<<"b","u","d","g","e","t"," ","p","o","o","l">>)} }

NoRequest ==
    [ query |-> Absent, location |-> Absent, maxPrice |-> Absent,
      amenity |-> Absent ]

-----------------------------------------------------------------------------
(* POST /api/test-extract-amenities *)

\* req.body of a request without a description field
NoBody == [description |-> Absent]

\* the request bodies the model sends
Bodies ==
    { [description |-> d] :
          d \in { Absent, Given(<<>>), Given(<<"p","o","o","l"," ","a","n","d"," ","w","i","f","i">>), Given(<<"S","e","a"," ","v","i","e","w">>) } }

\* the JSON bodies the AI service answers with when it answers OK
AiReplies == <<
    [ amenities |-> <<>>, confidence |-> 0 ],
    [ amenities |-> << <<"P","o","o","l">> >>, confidence |-> 9 ],
    [ amenities |-> << <<"W","i","F","i">>, <<"P","o","o","l">> >>, confidence |-> 8 ],
    [ detail |-> "no amenities" ] >>

\* no answer of the AI service
NoAnswer == [ok |-> FALSE, called |-> FALSE]

\* the AI service answered OK with the JSON body data
OkAnswer(data) == [ok |-> TRUE, called |-> TRUE, data |-> data]

\* the AI service answered with a status that is not OK, or the call or the
\* reading of its body failed
FailedAnswer == [ok |-> FALSE, called |-> TRUE]

\* a handler that has received no request: pc is where it stands, fetches
\* the number of requests it sent to the AI service for its request, sent
\* the JSON body of the last one, ai the AI service's answer, responses the
\* number of responses it gave
NoProxyRequest ==
    [ pc |-> "idle", endpoint |-> "", body |-> NoBody, fetches |-> 0,
      sent |-> NoBody, ai |-> NoAnswer, responses |-> 0 ]

\* the handler state after a request that was answered without a fetch
proxyRefused(ep, body) ==
    [ pc |-> "idle", endpoint |-> ep, body |-> body, fetches |-> 0,
      sent |-> NoBody, ai |-> NoAnswer, responses |-> 1 ]

\* the handler state after fetch was called with the JSON body sent
proxyFetching(ep, body, sent) ==
    [ pc |-> "fetch", endpoint |-> ep, body |-> body, fetches |-> 1,
      sent |-> sent, ai |-> NoAnswer, responses |-> 0 ]

\* the handler state after res.json was called once the AI service answered
proxyAnswered(p, answer) ==
    [p EXCEPT !.pc = "idle", !.ai = answer, !.responses = @ + 1]

\* the forwarding endpoints other than test-extract-amenities
Endpoints ==
    { "/travel/plan", "/travel/solo/start", "/travel/solo/resume",
      "/chat/smart" }

\* the path of the test endpoint
TestExtractEndpoint == "/test-extract-amenities"

\* the field of req.body each handler tests before it forwards
requiredField(ep) ==
    CASE ep = "/travel/solo/resume" -> "thread_id"
      [] ep = TestExtractEndpoint -> "description"
      [] OTHER -> "query"

\* a test for undefined only, which lets the empty string through
missing_UndefinedOnly(ep, body) == ~body[requiredField(ep)].given

\* if (!query) / if (!thread_id) / if (!description)
missing(ep, body) == ~Truthy(body[requiredField(ep)])

\* the request bodies sent to the travel and chat endpoints
ForwardBodies ==
    { [query |-> q, thread_id |-> t] :
          q \in { Absent, Given(<<>>), Given(<<"p","l","a","n"," ","g","o","a">>) },
          t \in { Absent, Given(<<>>), Given(<<"t","1">>) } }

\* x || "default"
orDefault(x) == IF Truthy(x) THEN x ELSE Given(<<"d","e","f","a","u","l","t">>)

\* the JSON body each handler sends to the AI service
forwardedBody(ep, body) ==
    CASE ep = "/chat/smart" ->
             [ query |-> body.query, thread_id |-> orDefault(body.thread_id),
               user_id |-> Given(<<"d","e","f","a","u","l","t">>) ]
      [] ep = "/travel/solo/resume" -> [ thread_id |-> body.thread_id ]
      [] ep = "/travel/plan" -> [ query |-> body.query ]
      [] ep = TestExtractEndpoint -> [ description |-> body.description ]
      [] OTHER -> [ query |-> body.query, thread_id |-> body.thread_id ]

\* the JSON bodies the AI service answers a travel or chat request with
ForwardReplies == <<
    [ itinerary |-> <<"D","a","y"," ","1">> ],
    [ thread_id |-> <<"t","1">>, questions |-> 2 ],
    [ error |-> "no plan", status |-> 500 ] >>

\* res.status(400).json({ error: ... })
validationError(ep) ==
    [ status |-> 400,
      error  |-> IF ep = "/travel/solo/resume" THEN "Thread ID is required"
                 ELSE "Query is required" ]

\* a catch block that calls res.json without res.status(500)
forwardFailure_NoStatus(ep) == [ status |-> 200, error |-> "Failed" ]

\* res.status(500).json({ error: ..., details: error.message })
forwardFailure(ep) ==
    [ status |-> 500,
      error  |-> CASE ep = "/travel/plan" ->
                          "Failed to generate travel itinerary"
                   [] ep = "/travel/solo/start" ->
                          "Failed to start solo trip planning"
                   [] ep = "/travel/solo/resume" ->
                          "Failed to resume solo trip planning"
                   [] OTHER -> "Failed to process chat request" ]

\* res.status(400).json({ error: "Description is required" })
descriptionRequired == [ status |-> 400, error |-> "Description is required" ]

\* res.json(data): the body of the AI service relayed
relayResponse(data) == [ status |-> 200, body |-> data ]

\* res.status(500).json({ error: "Failed to extract amenities", ... })
extractFailure == [ status |-> 500, error |-> "Failed to extract amenities" ]

\* the collection had the handler stored the amenities it was sent
collectionAfterTestExtract_Stored(docs, data) ==
    [ i \in 1..Len(docs) |->
          IF "amenities" \in DOMAIN data
          THEN [docs[i] EXCEPT !.hasAmenities = TRUE,
                               !.amenities = data.amenities]
          ELSE docs[i] ]

\* the collection once the handler has relayed the answer: the handler
\* never touches Listing
collectionAfterTestExtract(docs, data) == docs

-----------------------------------------------------------------------------
(* POST /api/listings/:id/extract-amenities *)

\* req.params.id: a string that is the ObjectId number value, or a string
\* that is no ObjectId
ObjectIdParam(value) == [wellFormed |-> TRUE, value |-> value]

MalformedParam == [wellFormed |-> FALSE, value |-> 0]

\* the :id values the model sends: the identifiers of the first listings,
\* one more, and a malformed one
IdParams ==
    { ObjectIdParam(v) : v \in 1..(MaxListings + 1) } \cup { MalformedParam }

\* Listing.findById(id): a malformed id makes the cast to ObjectId fail and
\* the query reject; otherwise the document with that _id, or null
findById(docs, param) ==
    IF ~param.wellFormed
    THEN [kind |-> "rejected"]
    ELSE IF \E i \in 1..Len(docs) : docs[i].id = param.value
         THEN [kind |-> "document",
               document |-> docs[CHOOSE i \in 1..Len(docs) :
                                     docs[i].id = param.value]]
         ELSE [kind |-> "null"]

\* an assignment that appends to the amenities already stored
assignAmenities_Append(doc, data) ==
    IF "amenities" \in DOMAIN data
    THEN [doc EXCEPT !.hasAmenities = TRUE,
                     !.amenities = doc.amenities \o data.amenities]
    ELSE [doc EXCEPT !.hasAmenities = FALSE, !.amenities = <<>>]

\* listing.amenities = data.amenities on the loaded document; a reply
\* without amenities assigns undefined, which unsets the path
assignAmenities(doc, data) ==
    IF "amenities" \in DOMAIN data
    THEN [doc EXCEPT !.hasAmenities = TRUE, !.amenities = data.amenities]
    ELSE [doc EXCEPT !.hasAmenities = FALSE, !.amenities = <<>>]

\* listing.save(): the modified path amenities of the loaded document is
\* written to the stored document with the same _id
save(docs, doc) ==
    [ i \in 1..Len(docs) |->
          IF docs[i].id = doc.id
          THEN [docs[i] EXCEPT !.hasAmenities = doc.hasAmenities,
                               !.amenities = doc.amenities]
          ELSE docs[i] ]

\* res.status(404).json({ error: "Listing not found" })
listingNotFound == [ status |-> 404, error |-> "Listing not found" ]

\* res.status(400).json({ error: "Listing has no description ..." })
noDescription ==
    [ status |-> 400, error |-> "Listing has no description to extract from" ]

\* res.json({ success: true, listing_id, amenities, confidence, count, ... })
extractSuccess(param, data) ==
    [ status |-> 200, success |-> TRUE, listing_id |-> param.value,
      amenities |-> data.amenities, confidence |-> data.confidence,
      count |-> Len(data.amenities) ]

\* the handler's response once save has resolved: amenities.length throws
\* for a reply without amenities and the catch block answers
afterSaveResponse(param, data) ==
    IF "amenities" \in DOMAIN data
    THEN extractSuccess(param, data)
    ELSE extractFailure

\* a handler that has received no request: before is the collection as it
\* was when the request arrived, document the listing findById loaded,
\* dbFailed whether the database failed a call of this request
NoExtract ==
    [ pc |-> "idle", id |-> MalformedParam, started |-> FALSE,
      before |-> <<>>, document |-> <<>>, fetches |-> 0, ai |-> NoAnswer,
      dbFailed |-> FALSE ]

-----------------------------------------------------------------------------
(* POST /api/listings/bulk-extract-amenities *)

\* a filter that selects only the documents without an amenities field
needsAmenities_MissingOnly(doc) == ~doc.hasAmenities

\* { $or: [ { amenities: { $exists: false } }, { amenities: { $size: 0 } } ] }
needsAmenities(doc) == ~doc.hasAmenities \/ Len(doc.amenities) = 0

\* results.push({ ..., status: "skipped", reason: "No description" })
skippedEntry(doc) ==
    [ listing_id |-> doc.id, title |-> doc.title, status |-> "skipped" ]

\* results.push({ ..., status: "success", amenities_count, amenities })
successEntry(doc, data) ==
    [ listing_id |-> doc.id, title |-> doc.title, status |-> "success",
      amenities_count |-> Len(data.amenities), amenities |-> data.amenities ]

\* results.push({ ..., status: "failed", error: error.message })
failedEntry(doc) ==
    [ listing_id |-> doc.id, title |-> doc.title, status |-> "failed" ]

\* the response when find selected nothing
allHaveAmenities ==
    [ status |-> 200, message |-> "All listings already have amenities",
      processed |-> 0, success |-> 0, failed |-> 0 ]

\* res.json({ processed, success, failed, results })
bulkSummary(b) ==
    [ status |-> 200, processed |-> Len(b.selected), success |-> b.success,
      failed |-> b.failed, results |-> b.results ]

\* res.status(500).json({ error: "Failed to bulk extract amenities", ... })
bulkFailure == [ status |-> 500, error |-> "Failed to bulk extract amenities" ]

\* a handler that has received no request: before is the collection as it
\* was when the request arrived, selected the documents find returned, i the
\* position of the loop in selected, fetches the number of requests sent
\* to the AI service, faults the positions at which the AI service or
\* save failed
NoBulk ==
    [ pc |-> "idle", started |-> FALSE, before |-> <<>>, selected |-> <<>>,
      i |-> 1, results |-> <<>>, success |-> 0, failed |-> 0, fetches |-> 0,
      data |-> [none |-> TRUE], faults |-> {} ]

\* the loop from position b.i on, as far as it runs without waiting: a
\* listing without description is reported skipped, the first listing with
\* a description stops the loop at its fetch, and the end of the array
\* ends the handler
RECURSIVE runLoop(_)
runLoop(b) ==
    IF b.i > Len(b.selected)
    THEN [b EXCEPT !.pc = "idle"]
    ELSE IF b.selected[b.i].description = <<>>
         THEN runLoop([b EXCEPT !.results = Append(@, skippedEntry(b.selected[b.i])),
                                !.i = @ + 1])
         ELSE [b EXCEPT !.pc = "fetch", !.fetches = @ + 1]

\* a catch block that ends the loop
caught_Break(b) ==
    [b EXCEPT !.results = Append(@, failedEntry(b.selected[b.i])),
              !.failed = @ + 1,
              !.i = Len(b.selected) + 1,
              !.pc = "idle"]

\* the inner catch block: the listing is reported failed and the loop goes
\* on with the next listing
caught(b) ==
    runLoop([b EXCEPT !.results = Append(@, failedEntry(b.selected[b.i])),
                      !.failed = @ + 1,
                      !.i = @ + 1])

\* the end of the try block of the loop body once save has resolved:
\* data.amenities.length throws for a reply without amenities
saved(b) ==
    IF "amenities" \in DOMAIN b.data
    THEN runLoop([b EXCEPT
                     !.results = Append(@, successEntry(b.selected[b.i], b.data)),
                     !.success = @ + 1,
                     !.i = @ + 1])
    ELSE caught(b)

-----------------------------------------------------------------------------
(* State machine *)

SmallCollections ==
    UNION { { Collection(n, f) : f \in [1..n -> 1..Len(Templates)] } :
            n \in 0..MaxListings }

\* sizes just over the limit, and one of twice the limit so that a filter
\* can leave more than SearchLimit records
LargeSizes == { SearchLimit + e : e \in 1..MaxExtra } \cup { 2 * SearchLimit }

LargeCollections ==
    { Collection(n, Cyclic(n, o)) : n \in LargeSizes, o \in 0..1 }

NoResponse == [status |-> 0]

Init ==
    /\ listings \in SmallCollections \cup LargeCollections
    /\ request = NoRequest
    /\ candidates = <<>>
    /\ response = NoResponse
    /\ pc = "idle"
    /\ seedPc = "idle"
    /\ seedRuns = 0
    /\ nextId = Len(listings) + 1
    /\ proxy = NoProxyRequest
    /\ proxyResponse = NoResponse
    /\ extract = NoExtract
    /\ extractResponse = NoResponse
    /\ bulk = NoBulk
    /\ bulkResponse = NoResponse

\* a request arrives: the handler reads req.query, builds the filter and
\* waits for Listing.find
SearchRequest(req) ==
    /\ pc = "idle"
    /\ pc' = "find"
    /\ request' = req
    /\ candidates' = <<>>
    /\ response' = NoResponse
    /\ UNCHANGED <<listings, seedVars, proxyVars,
                 extractVars, bulkVars>>

\* Listing.find resolves: the rest of the handler runs and answers
SearchResolves ==
    /\ pc = "find"
    /\ pc' = "idle"
    /\ candidates' = candidatesAfterSearch(request, workingSet(request, listings))
    /\ response' = successResponse(searchHotels(request, listings))
    /\ listings' = collectionAfterSearch(request, listings)
    /\ UNCHANGED <<request, seedVars, proxyVars,
                 extractVars, bulkVars>>

\* Listing.find rejects: the catch block answers
SearchRejects ==
    /\ pc = "find"
    /\ pc' = "idle"
    /\ candidates' = <<>>
    /\ response' = failureResponse
    /\ UNCHANGED <<listings, request, seedVars, proxyVars,
                 extractVars, bulkVars>>

Next ==
    \/ \E req \in Requests : SearchRequest(req)
    \/ SearchResolves
    \/ SearchRejects

Spec == Init /\ [][Next]_vars

-----------------------------------------------------------------------------
(* The seeding script as a process *)

\* node init/index.js: initDB() is called
SeedStart ==
    /\ seedPc \in {"idle", "exited", "crashed"}
    /\ seedRuns < MaxSeedRuns
    /\ seedPc' = "delete"
    /\ seedRuns' = seedRuns + 1
    /\ UNCHANGED <<listings, nextId, searchVars, proxyVars,
                 extractVars, bulkVars>>

\* await Listing.deleteMany({}) resolves
SeedDeleteMany ==
    /\ seedPc = "delete"
    /\ listings' = deleteMany(listings)
    /\ seedPc' = "insert"
    /\ UNCHANGED <<seedRuns, nextId, searchVars, proxyVars,
                 extractVars, bulkVars>>

\* await Listing.deleteMany({}) rejects (no connection): the rejection is
\* not handled and the process ends
SeedDeleteFails ==
    /\ seedPc = "delete"
    /\ seedPc' = "crashed"
    /\ UNCHANGED <<listings, seedRuns, nextId, searchVars, proxyVars,
                 extractVars, bulkVars>>

\* await Listing.insertMany(initData.data) resolves
SeedInsertMany ==
    /\ seedPc = "insert"
    /\ listings' = insertMany(listings, sampleListings, nextId)
    /\ nextId' = nextId + Len(sampleListings)
    /\ seedPc' = "close"
    /\ UNCHANGED <<seedRuns, searchVars, proxyVars,
                 extractVars, bulkVars>>

\* await Listing.insertMany(initData.data) rejects (connection lost): the
\* process ends
SeedInsertFails ==
    /\ seedPc = "insert"
    /\ seedPc' = "crashed"
    /\ UNCHANGED <<listings, seedRuns, nextId, searchVars, proxyVars,
                 extractVars, bulkVars>>

\* mongoose.connection.close() and process.exit(0)
SeedExit ==
    /\ seedPc = "close"
    /\ seedPc' = "exited"
    /\ UNCHANGED <<listings, seedRuns, nextId, searchVars, proxyVars,
                 extractVars, bulkVars>>

NextSeed ==
    \/ SeedStart
    \/ SeedDeleteMany
    \/ SeedDeleteFails
    \/ SeedInsertMany
    \/ SeedInsertFails
    \/ SeedExit

SpecSeed == Init /\ [][NextSeed]_vars

-----------------------------------------------------------------------------
(* The test-extract-amenities handler as a process *)

\* a request arrives: without a description it is answered 400 at once,
\* otherwise the handler waits for fetch
TestExtractRequest(body) ==
    /\ proxy.pc = "idle"
    /\ IF missing(TestExtractEndpoint, body)
       THEN /\ proxy' = proxyRefused(TestExtractEndpoint, body)
            /\ proxyResponse' = descriptionRequired
       ELSE /\ proxy' = proxyFetching(TestExtractEndpoint, body,
                                      forwardedBody(TestExtractEndpoint, body))
            /\ proxyResponse' = NoResponse
    /\ UNCHANGED <<listings, searchVars, seedVars,
                 extractVars, bulkVars>>

\* fetch resolves with response.ok and a JSON body: the body is relayed
TestExtractAiOk(r) ==
    /\ proxy.pc = "fetch"
    /\ proxy.endpoint = TestExtractEndpoint
    /\ proxy' = proxyAnswered(proxy, OkAnswer(AiReplies[r]))
    /\ proxyResponse' = relayResponse(AiReplies[r])
    /\ listings' = collectionAfterTestExtract(listings, AiReplies[r])
    /\ UNCHANGED <<searchVars, seedVars,
                 extractVars, bulkVars>>

\* fetch resolves with a status that is not OK: the handler throws and the
\* catch block answers
TestExtractAiNotOk ==
    /\ proxy.pc = "fetch"
    /\ proxy.endpoint = TestExtractEndpoint
    /\ proxy' = proxyAnswered(proxy, FailedAnswer)
    /\ proxyResponse' = extractFailure
    /\ UNCHANGED <<listings, searchVars, seedVars,
                 extractVars, bulkVars>>

\* fetch or response.json() rejects: the catch block answers
TestExtractAiThrows ==
    /\ proxy.pc = "fetch"
    /\ proxy.endpoint = TestExtractEndpoint
    /\ proxy' = proxyAnswered(proxy, FailedAnswer)
    /\ proxyResponse' = extractFailure
    /\ UNCHANGED <<listings, searchVars, seedVars,
                 extractVars, bulkVars>>

NextTestExtract ==
    \/ \E body \in Bodies : TestExtractRequest(body)
    \/ \E r \in 1..Len(AiReplies) : TestExtractAiOk(r)
    \/ TestExtractAiNotOk
    \/ TestExtractAiThrows

SpecProxy == Init /\ [][NextTestExtract]_vars

-----------------------------------------------------------------------------
(* The travel and chat handlers as a process *)

\* a request arrives at one of the four endpoints: without its required
\* field it is answered 400 at once, otherwise fetch is called
ForwardRequest(ep, body) ==
    /\ proxy.pc = "idle"
    /\ IF missing(ep, body)
       THEN /\ proxy' = proxyRefused(ep, body)
            /\ proxyResponse' = validationError(ep)
       ELSE /\ proxy' = proxyFetching(ep, body, forwardedBody(ep, body))
            /\ proxyResponse' = NoResponse
    /\ UNCHANGED <<listings, searchVars, seedVars,
                 extractVars, bulkVars>>

\* fetch resolves with response.ok and a JSON body: res.json(data)
ForwardAiOk(r) ==
    /\ proxy.pc = "fetch"
    /\ proxy.endpoint \in Endpoints
    /\ proxy' = proxyAnswered(proxy, OkAnswer(ForwardReplies[r]))
    /\ proxyResponse' = relayResponse(ForwardReplies[r])
    /\ UNCHANGED <<listings, searchVars, seedVars,
                 extractVars, bulkVars>>

\* fetch resolves with a status that is not OK: the handler throws and the
\* catch block answers
ForwardAiNotOk ==
    /\ proxy.pc = "fetch"
    /\ proxy.endpoint \in Endpoints
    /\ proxy' = proxyAnswered(proxy, FailedAnswer)
    /\ proxyResponse' = forwardFailure(proxy.endpoint)
    /\ UNCHANGED <<listings, searchVars, seedVars,
                 extractVars, bulkVars>>

\* fetch, response.text() or response.json() rejects: the catch block
\* answers
ForwardAiThrows ==
    /\ proxy.pc = "fetch"
    /\ proxy.endpoint \in Endpoints
    /\ proxy' = proxyAnswered(proxy, FailedAnswer)
    /\ proxyResponse' = forwardFailure(proxy.endpoint)
    /\ UNCHANGED <<listings, searchVars, seedVars,
                 extractVars, bulkVars>>

\* a fetch that was called settles: the AI service answers or the call fails
AiSettles ==
    \/ \E r \in 1..Len(AiReplies) : TestExtractAiOk(r)
    \/ TestExtractAiNotOk
    \/ TestExtractAiThrows
    \/ \E r \in 1..Len(ForwardReplies) : ForwardAiOk(r)
    \/ ForwardAiNotOk
    \/ ForwardAiThrows

NextForward ==
    \/ \E body \in Bodies : TestExtractRequest(body)
    \/ \E ep \in Endpoints, body \in ForwardBodies : ForwardRequest(ep, body)
    \/ AiSettles

\* every fetch settles: the call resolves, rejects or runs into the
\* timeout of the HTTP client
SpecForward == Init /\ [][NextForward]_vars /\ WF_vars(AiSettles)

-----------------------------------------------------------------------------
(* The extract-amenities handler as a process *)

\* the initial states with a collection of at most MaxListings documents
InitSmall == Init /\ Len(listings) <= MaxListings

\* a request arrives and findById is called
ExtractRequest(param) ==
    /\ extract.pc = "idle"
    /\ extract' = [ pc |-> "find", id |-> param, started |-> TRUE,
                    before |-> listings, document |-> <<>>, fetches |-> 0,
                    ai |-> NoAnswer, dbFailed |-> FALSE ]
    /\ extractResponse' = NoResponse
    /\ UNCHANGED <<listings, searchVars, seedVars, proxyVars, bulkVars>>

\* findById resolves: null is answered 404, a listing without description
\* 400, otherwise fetch is called with the description
ExtractFindResolves ==
    /\ extract.pc = "find"
    /\ LET found == findById(listings, extract.id)
       IN  /\ found.kind # "rejected"
           /\ IF found.kind = "null"
              THEN /\ extract' = [extract EXCEPT !.pc = "idle"]
                   /\ extractResponse' = listingNotFound
              ELSE IF found.document.description = <<>>
                   THEN /\ extract' = [extract EXCEPT !.pc = "idle"]
                        /\ extractResponse' = noDescription
                   ELSE /\ extract' = [extract EXCEPT
                                           !.pc = "fetch",
                                           !.document = found.document,
                                           !.fetches = @ + 1]
                        /\ extractResponse' = NoResponse
    /\ UNCHANGED <<listings, searchVars, seedVars, proxyVars, bulkVars>>

\* findById rejects because the id cannot be cast to an ObjectId: the catch
\* block answers
ExtractFindCastError ==
    /\ extract.pc = "find"
    /\ findById(listings, extract.id).kind = "rejected"
    /\ extract' = [extract EXCEPT !.pc = "idle"]
    /\ extractResponse' = extractFailure
    /\ UNCHANGED <<listings, searchVars, seedVars, proxyVars, bulkVars>>

\* findById rejects because the database fails: the catch block answers
ExtractFindRejects ==
    /\ extract.pc = "find"
    /\ extract' = [extract EXCEPT !.pc = "idle", !.dbFailed = TRUE]
    /\ extractResponse' = extractFailure
    /\ UNCHANGED <<listings, searchVars, seedVars, proxyVars, bulkVars>>

\* fetch resolves with response.ok and a JSON body: the amenities of the
\* body are assigned to the loaded document and save is called
ExtractAiOk(r) ==
    /\ extract.pc = "fetch"
    /\ extract' = [extract EXCEPT
                      !.pc = "save",
                      !.ai = OkAnswer(AiReplies[r]),
                      !.document = assignAmenities(@, AiReplies[r])]
    /\ UNCHANGED <<listings, extractResponse, searchVars, seedVars, proxyVars,
                   bulkVars>>

\* fetch resolves with a status that is not OK: the handler throws and the
\* catch block answers
ExtractAiNotOk ==
    /\ extract.pc = "fetch"
    /\ extract' = [extract EXCEPT !.pc = "idle", !.ai = FailedAnswer]
    /\ extractResponse' = extractFailure
    /\ UNCHANGED <<listings, searchVars, seedVars, proxyVars, bulkVars>>

\* fetch, response.text() or response.json() rejects: the catch block
\* answers
ExtractAiThrows ==
    /\ extract.pc = "fetch"
    /\ extract' = [extract EXCEPT !.pc = "idle", !.ai = FailedAnswer]
    /\ extractResponse' = extractFailure
    /\ UNCHANGED <<listings, searchVars, seedVars, proxyVars, bulkVars>>

\* save resolves: the document is stored and the response is built
ExtractSaveResolves ==
    /\ extract.pc = "save"
    /\ listings' = save(listings, extract.document)
    /\ extract' = [extract EXCEPT !.pc = "idle"]
    /\ extractResponse' =
           afterSaveResponse(extract.id, extract.ai.data)
    /\ UNCHANGED <<searchVars, seedVars, proxyVars, bulkVars>>

\* save rejects: nothing is stored and the catch block answers
ExtractSaveRejects ==
    /\ extract.pc = "save"
    /\ extract' = [extract EXCEPT !.pc = "idle", !.dbFailed = TRUE]
    /\ extractResponse' = extractFailure
    /\ UNCHANGED <<listings, searchVars, seedVars, proxyVars, bulkVars>>

NextExtract ==
    \/ \E param \in IdParams : ExtractRequest(param)
    \/ ExtractFindResolves
    \/ ExtractFindCastError
    \/ ExtractFindRejects
    \/ \E r \in 1..Len(AiReplies) : ExtractAiOk(r)
    \/ ExtractAiNotOk
    \/ ExtractAiThrows
    \/ ExtractSaveResolves
    \/ ExtractSaveRejects

SpecExtract == InitSmall /\ [][NextExtract]_vars

-----------------------------------------------------------------------------
(* The bulk-extract-amenities handler as a process *)

\* the response the handler gives in state b: the summary once the loop has
\* ended, none before
bulkResponseOf(b) == IF b.pc = "idle" THEN bulkSummary(b) ELSE NoResponse

\* a request arrives and find is called
BulkRequest ==
    /\ bulk.pc = "idle"
    /\ bulk' = [NoBulk EXCEPT !.pc = "find", !.started = TRUE,
                              !.before = listings]
    /\ bulkResponse' = NoResponse
    /\ UNCHANGED <<listings, searchVars, seedVars, proxyVars, extractVars>>

\* find resolves: with nothing selected the handler answers at once,
\* otherwise the loop starts
BulkFindResolves ==
    /\ bulk.pc = "find"
    /\ LET selected == SelectSeq(listings, needsAmenities)
       IN  IF Len(selected) = 0
           THEN /\ bulk' = [bulk EXCEPT !.pc = "idle"]
                /\ bulkResponse' = allHaveAmenities
           ELSE /\ bulk' = runLoop([bulk EXCEPT !.selected = selected])
                /\ bulkResponse' = bulkResponseOf(bulk')
    /\ UNCHANGED <<listings, searchVars, seedVars, proxyVars, extractVars>>

\* find rejects: the outer catch block answers
BulkFindRejects ==
    /\ bulk.pc = "find"
    /\ bulk' = [bulk EXCEPT !.pc = "idle"]
    /\ bulkResponse' = bulkFailure
    /\ UNCHANGED <<listings, searchVars, seedVars, proxyVars, extractVars>>

\* fetch resolves with response.ok and a JSON body: the amenities of the
\* body are assigned to the loaded document and save is called
BulkAiOk(r) ==
    /\ bulk.pc = "fetch"
    /\ bulk' = [bulk EXCEPT
                   !.pc = "save",
                   !.data = AiReplies[r],
                   !.selected[bulk.i] = assignAmenities(@, AiReplies[r])]
    /\ UNCHANGED <<listings, bulkResponse, searchVars, seedVars, proxyVars,
                   extractVars>>

\* fetch resolves with a status that is not OK: the loop body throws
BulkAiNotOk ==
    /\ bulk.pc = "fetch"
    /\ bulk' = caught([bulk EXCEPT !.faults = @ \cup {bulk.i}])
    /\ bulkResponse' = bulkResponseOf(bulk')
    /\ UNCHANGED <<listings, searchVars, seedVars, proxyVars, extractVars>>

\* fetch or response.json() rejects
BulkAiThrows ==
    /\ bulk.pc = "fetch"
    /\ bulk' = caught([bulk EXCEPT !.faults = @ \cup {bulk.i}])
    /\ bulkResponse' = bulkResponseOf(bulk')
    /\ UNCHANGED <<listings, searchVars, seedVars, proxyVars, extractVars>>

\* save resolves: the document is stored and its result is pushed
BulkSaveResolves ==
    /\ bulk.pc = "save"
    /\ listings' = save(listings, bulk.selected[bulk.i])
    /\ bulk' = saved(bulk)
    /\ bulkResponse' = bulkResponseOf(bulk')
    /\ UNCHANGED <<searchVars, seedVars, proxyVars, extractVars>>

\* save rejects: nothing is stored
BulkSaveRejects ==
    /\ bulk.pc = "save"
    /\ bulk' = caught([bulk EXCEPT !.faults = @ \cup {bulk.i}])
    /\ bulkResponse' = bulkResponseOf(bulk')
    /\ UNCHANGED <<listings, searchVars, seedVars, proxyVars, extractVars>>

NextBulk ==
    \/ BulkRequest
    \/ BulkFindResolves
    \/ BulkFindRejects
    \/ \E r \in 1..Len(AiReplies) : BulkAiOk(r)
    \/ BulkAiNotOk
    \/ BulkAiThrows
    \/ BulkSaveResolves
    \/ BulkSaveRejects

SpecBulk == InitSmall /\ [][NextBulk]_vars

-----------------------------------------------------------------------------
(* Properties of the search response *)

\* a search has been answered with success
Answered == pc = "idle" /\ response.status = 200

\* the record carries a matchScore field
HasScore(h) == "matchScore" \in DOMAIN h

\* position of the document with identifier id in the array arr
PositionOf(arr, id) == CHOOSE i \in 1..Len(arr) : arr[i].id = id

\* C1: the hotels list of a success response holds at most 20 records,
\* whatever the parameters and however many listings are stored.
C1_AtMostTwenty ==
    Answered => Len(response.hotels) <= 20 /\ response.count <= 20

\* C1 witness: more than 20 records were in the working set and exactly 20
\* were returned
C1_Witness ==
    /\ Answered
    /\ Len(candidates) > 20
    /\ Len(response.hotels) = 20

\* C2: with a non-empty query every returned record carries a matchScore
\* that is an integer between 0 and 100.
C2_ScoreInRange ==
    (Answered /\ Truthy(request.query)) =>
        \A i \in 1..Len(response.hotels) :
            /\ HasScore(response.hotels[i])
            /\ response.hotels[i].matchScore \in 0..100

\* C2 witness: a returned record whose points add up to more than 100 and
\* whose matchScore is 100
C2_Witness ==
    /\ Answered
    /\ Truthy(request.query)
    /\ \E i \in 1..Len(response.hotels) :
           /\ response.hotels[i].matchScore = 100
           /\ rawScore(toLowerCase(request.query.text), response.hotels[i]) > 100

\* the identifiers of the documents of an array
IdsOf(arr) == { arr[i].id : i \in 1..Len(arr) }

\* the number a decimal numeral denotes: its integer digits and, after a
\* decimal point, its first fractional digit
numberOf(s) ==
    LET n == DigitRun(s)
    IN  Num(DigitsValue(SubSeq(s, 1, n)),
            IF Len(s) >= n + 2 /\ s[n + 1] = "." /\ IsDigit(s[n + 2])
            THEN DigitValue(s[n + 2]) ELSE 0)

\* the stored documents that pass the location filter of the request
PassLocation(req, docs) ==
    SelectSeq(docs, LAMBDA d :
        Truthy(req.location) => regexMatch(req.location.text, d.location))

\* the stored documents that pass the price filter of the request
PassPrice(req, docs) ==
    SelectSeq(docs, LAMBDA d :
        Truthy(req.maxPrice) => d.price <= parseInt(req.maxPrice.text))

\* C3: with maxPrice supplied, the working set holds exactly the records
\* with price <= maxPrice (a record priced exactly at maxPrice included),
\* with or without a query.
C3_PriceFilterExact ==
    (Answered /\ Truthy(request.maxPrice)) =>
        IdsOf(candidates) =
            { d.id : d \in { x \in { PassLocation(request, listings)[i] :
                                   i \in 1..Len(PassLocation(request, listings)) } :
                                x.price <= numberOf(request.maxPrice.text) } }

\* C4: with location supplied, the working set holds exactly the records
\* whose location contains the parameter text as a case-insensitive literal
\* substring, with or without a query.
C4_LocationLiteral ==
    (Answered /\ Truthy(request.location)) =>
        IdsOf(candidates) =
            { d.id : d \in { x \in { PassPrice(request, listings)[i] :
                                   i \in 1..Len(PassPrice(request, listings)) } :
                                includes(toLowerCase(x.location),
                                         toLowerCase(request.location.text)) } }

\* C5: with query absent or empty, no returned record has a matchScore
\* field and the returned records keep the relative order they had in the
\* sequence storage delivered.
C5_NoQueryNoScore ==
    (Answered /\ ~Truthy(request.query)) =>
        /\ \A i \in 1..Len(response.hotels) : ~HasScore(response.hotels[i])
        /\ \A i, j \in 1..Len(response.hotels) :
               i < j => PositionOf(candidates, response.hotels[i].id)
                            < PositionOf(candidates, response.hotels[j].id)

\* C5 witness: the query parameter is present but empty and several records
\* are returned
C5_Witness ==
    /\ Answered
    /\ request.query.given
    /\ request.query.text = <<>>
    /\ Len(response.hotels) >= 2

\* the keywords that occur in the lower-cased query, by index
GatedKeywords(q) ==
    { k \in 1..Len(keywords) : includes(toLowerCase(q), keywords[k]) }

\* the gated keywords found in the record's title or description
TextHits(q, r) ==
    { k \in GatedKeywords(q) :
          \/ includes(toLowerCase(r.title), keywords[k])
          \/ includes(toLowerCase(r.description), keywords[k]) }

\* the gated keywords found in some element of the record's amenities
AmenityHits(q, r) ==
    { k \in GatedKeywords(q) :
          \E i \in 1..Len(r.amenities) :
              includes(toLowerCase(r.amenities[i]), keywords[k]) }

\* the price-band rules the query and the record's price satisfy
BandHits(q, r) ==
    { b \in {"budget", "luxury", "mid"} :
        \/ /\ b = "budget"
           /\ includes(toLowerCase(q), <<"b","u","d","g","e","t">>)
           /\ r.price < Num(3000, 0)
        \/ /\ b = "luxury"
           /\ includes(toLowerCase(q), <<"l","u","x","u","r","y">>)
           /\ r.price > Num(4000, 0)
        \/ /\ b = "mid"
           /\ includes(toLowerCase(q), <<"m","i","d">>)
           /\ Num(2500, 0) <= r.price
           /\ r.price <= Num(4500, 0) }

\* the location-segment match: the text of the record's location before
\* its first comma, lower-cased, occurs in the lower-cased query
SegmentHit(q, r) ==
    includes(toLowerCase(q), splitFirst(toLowerCase(r.location)))

\* the sum S of the points of record r for query q
PointSum(q, r) ==
    20 * Cardinality(TextHits(q, r))
        + 25 * Cardinality(AmenityHits(q, r))
        + (IF SegmentHit(q, r) THEN 30 ELSE 0)
        + 15 * Cardinality(BandHits(q, r))

\* C6: for a non-empty query q the matchScore of every record r is
\* min(100, S): S adds, per vocabulary keyword occurring in q, 20 for a hit
\* in title or description (once) and 25 for a hit in amenities, 30 for the
\* location-segment match and 15 per satisfied price-band rule.
C6_ScoreIsCappedSum ==
    (Answered /\ Truthy(request.query)) =>
        /\ Len(keywords) = 18
        /\ \A i \in 1..Len(candidates) :
               matchScoreOf(toLowerCase(request.query.text), candidates[i])
                   = min(100, PointSum(request.query.text, candidates[i]))
        /\ \A i \in 1..Len(response.hotels) :
               response.hotels[i].matchScore
                   = min(100, PointSum(request.query.text, response.hotels[i]))

\* C6 witness: a returned record below the ceiling with a keyword hit in
\* its text, a keyword hit in its amenities and a price-band bonus
C6_Witness ==
    /\ Answered
    /\ Truthy(request.query)
    /\ \E i \in 1..Len(response.hotels) :
           /\ TextHits(request.query.text, response.hotels[i]) # {}
           /\ AmenityHits(request.query.text, response.hotels[i]) # {}
           /\ BandHits(request.query.text, response.hotels[i]) # {}
           /\ response.hotels[i].matchScore < 100

\* C7: with a non-empty query the returned hotels are in non-increasing
\* matchScore order, also after the amenity filter and the truncation.
C7_SortedDescending ==
    (Answered /\ Truthy(request.query)) =>
        \A i, j \in 1..Len(response.hotels) :
            i < j => response.hotels[i].matchScore
                         >= response.hotels[j].matchScore

\* C7 witness: an amenity-filtered, truncated response with different
\* scores in which a record overtook one stored before it
C7_Witness ==
    /\ Answered
    /\ Truthy(request.query)
    /\ Truthy(request.amenity)
    /\ Len(response.hotels) = 20
    /\ \E i, j \in 1..Len(response.hotels) :
           /\ i < j
           /\ response.hotels[i].matchScore > response.hotels[j].matchScore
           /\ response.hotels[i].id > response.hotels[j].id

\* C8: with a non-empty query, returned records of equal matchScore keep
\* the relative order they had in the sequence storage delivered.
C8_StableTies ==
    (Answered /\ Truthy(request.query)) =>
        \A i, j \in 1..Len(response.hotels) :
            (i < j /\ response.hotels[i].matchScore
                          = response.hotels[j].matchScore)
                => PositionOf(candidates, response.hotels[i].id)
                       < PositionOf(candidates, response.hotels[j].id)

\* C8 witness: two returned records tie, and the sort moved another record
\* in front of one stored before it
C8_Witness ==
    /\ Answered
    /\ Truthy(request.query)
    /\ \E i, j \in 1..Len(response.hotels) :
           /\ i < j
           /\ response.hotels[i].matchScore = response.hotels[j].matchScore
    /\ \E i, j \in 1..Len(response.hotels) :
           /\ i < j
           /\ PositionOf(candidates, response.hotels[i].id)
                  > PositionOf(candidates, response.hotels[j].id)

\* C10: a search leaves the stored listings as they were (none created,
\* deleted, reordered or given a matchScore), and the records find handed
\* to the handler are still the stored ones when the handler has answered.
C10_SearchReadsOnly ==
    [][ /\ listings' = listings
        /\ (pc = "find" /\ response'.status = 200)
               => candidates' = workingSet(request, listings) ]_vars

\* C10 witness: a search has answered with scored records while no stored
\* listing and no candidate carries a matchScore
C10_Witness ==
    /\ Answered
    /\ Truthy(request.query)
    /\ Len(response.hotels) > 0
    /\ HasScore(response.hotels[1])
    /\ \A i \in 1..Len(listings) : ~HasScore(listings[i])
    /\ \A i \in 1..Len(candidates) : ~HasScore(candidates[i])

\* String.prototype.trim for the blanks of the model: s without its
\* leading and trailing spaces
RECURSIVE trim(_)
trim(s) ==
    IF s = <<>> THEN s
    ELSE IF Head(s) = " " THEN trim(Tail(s))
    ELSE IF s[Len(s)] = " " THEN trim(SubSeq(s, 1, Len(s) - 1))
    ELSE s

\* the first comma segment of the record's location, lower-cased and
\* trimmed, occurs in the lower-cased query
TrimmedSegmentHit(q, r) ==
    includes(toLowerCase(q), trim(splitFirst(toLowerCase(r.location))))

\* the points of record r for query q apart from the location bonus
PointsWithoutLocation(q, r) ==
    20 * Cardinality(TextHits(q, r))
        + 25 * Cardinality(AmenityHits(q, r))
        + 15 * Cardinality(BandHits(q, r))

\* C11: for a non-empty query a record receives the 30-point location bonus
\* if and only if the first comma segment of its location, lower-cased and
\* trimmed of surrounding whitespace, is a substring of the lower-cased query.
C11_TrimmedSegmentBonus ==
    (Answered /\ Truthy(request.query)) =>
        /\ \A i \in 1..Len(candidates) :
               (locationScore(toLowerCase(request.query.text), candidates[i]) = 30)
                   <=> TrimmedSegmentHit(request.query.text, candidates[i])
        /\ \A i \in 1..Len(response.hotels) :
               response.hotels[i].matchScore =
                   min(100, PointsWithoutLocation(request.query.text,
                                                  response.hotels[i])
                            + (IF TrimmedSegmentHit(request.query.text,
                                                    response.hotels[i])
                               THEN 30 ELSE 0))

\* the location has two or more comma-separated segments
HasLaterSegment(loc) == \E i \in 1..Len(loc) : loc[i] = ","

\* the query names the first comma segment of the location
NamesFirstSegment(q, loc) ==
    includes(toLowerCase(q), splitFirst(toLowerCase(loc)))

\* C12: a record whose location has two or more comma segments gets no
\* location bonus from a query that does not contain its first segment, also
\* when the query contains a later segment; a record that differs from it
\* only in a first segment the query names has exactly 30 points more before
\* the ceiling.
C12_LaterSegmentNoBonus ==
    (Answered /\ Truthy(request.query)) =>
        \A i \in 1..Len(candidates) :
            (/\ HasLaterSegment(candidates[i].location)
             /\ ~NamesFirstSegment(request.query.text, candidates[i].location))
            => /\ rawScore(toLowerCase(request.query.text), candidates[i])
                     = PointsWithoutLocation(request.query.text, candidates[i])
               /\ \A t \in 1..Len(Templates) :
                      (/\ HasLaterSegment(Templates[t].location)
                       /\ NamesFirstSegment(request.query.text,
                                            Templates[t].location))
                      => rawScore(toLowerCase(request.query.text),
                                  [candidates[i] EXCEPT
                                      !.location = Templates[t].location])
                             = rawScore(toLowerCase(request.query.text),
                                        candidates[i]) + 30

\* C12 witness: the query contains the last segment of a returned record's
\* location but not its first, the record is returned without the bonus,
\* and another location's first segment is named by the query
C12_Witness ==
    /\ Answered
    /\ Truthy(request.query)
    /\ \E i \in 1..Len(response.hotels) :
           /\ HasLaterSegment(response.hotels[i].location)
           /\ ~NamesFirstSegment(request.query.text, response.hotels[i].location)
           /\ includes(toLowerCase(request.query.text),
                       splitLast(toLowerCase(response.hotels[i].location)))
           /\ response.hotels[i].matchScore
                  = PointsWithoutLocation(request.query.text, response.hotels[i])
    /\ \E t \in 1..Len(Templates) :
           /\ HasLaterSegment(Templates[t].location)
           /\ NamesFirstSegment(request.query.text, Templates[t].location)

\* C13: a vocabulary keyword that does not occur in the lower-cased query
\* adds nothing to any record, whatever the record's title, description or
\* amenities contain; when no vocabulary keyword occurs in the query the
\* keyword part of every score is 0.
C13_KeywordsGated ==
    (Answered /\ Truthy(request.query)) =>
        /\ \A i \in 1..Len(candidates) :
               /\ keywordScore(1, toLowerCase(request.query.text), candidates[i])
                      <= 45 * Cardinality(GatedKeywords(request.query.text))
               /\ keywordScore(1, toLowerCase(request.query.text), candidates[i])
                      = 20 * Cardinality(TextHits(request.query.text, candidates[i]))
                        + 25 * Cardinality(AmenityHits(request.query.text,
                                                       candidates[i]))
        /\ GatedKeywords(request.query.text) = {} =>
               \A i \in 1..Len(response.hotels) :
                   response.hotels[i].matchScore =
                       min(100,
                           locationScore(toLowerCase(request.query.text),
                                         response.hotels[i])
                           + priceScore(toLowerCase(request.query.text),
                                        response.hotels[i]))

\* C13 witness: the query names no vocabulary keyword and a returned record
\* has vocabulary keywords in its text and in its amenities
C13_Witness ==
    /\ Answered
    /\ Truthy(request.query)
    /\ GatedKeywords(request.query.text) = {}
    /\ \E i \in 1..Len(response.hotels) :
           /\ \E k \in 1..Len(keywords) :
                  includes(toLowerCase(response.hotels[i].description),
                           keywords[k])
           /\ \E k \in 1..Len(keywords) :
                  \E a \in 1..Len(response.hotels[i].amenities) :
                      includes(toLowerCase(response.hotels[i].amenities[a]),
                               keywords[k])
           /\ response.hotels[i].matchScore <= 45

\* the query contains the word
QueryHas(word) == includes(toLowerCase(request.query.text), word)

\* C14: the price-band bonuses are 15 points for "budget" iff price < 3000
\* (3000 gets none), 15 for "luxury" iff price > 4000 (4000 gets none) and
\* 15 for "mid" iff 2500 <= price <= 4500 (both ends get it), each rule on
\* its own.
C14_PriceBands ==
    (Answered /\ Truthy(request.query)) =>
        \A i \in 1..Len(candidates) :
            priceScore(toLowerCase(request.query.text), candidates[i]) =
                15 * ( (IF /\ QueryHas(<<"b","u","d","g","e","t">>)
                           /\ candidates[i].price <= Num(2999, 9)
                        THEN 1 ELSE 0)
                     + (IF /\ QueryHas(<<"l","u","x","u","r","y">>)
                           /\ candidates[i].price >= Num(4000, 1)
                        THEN 1 ELSE 0)
                     + (IF /\ QueryHas(<<"m","i","d">>)
                           /\ candidates[i].price \in Num(2500, 0)..Num(4500, 0)
                        THEN 1 ELSE 0) )

\* C14 witness: the query has all three words and the working set has the
\* four boundary prices: 2500 earns budget and mid, 3000 and 4000 earn mid
\* only, 4500 earns luxury and mid
C14_Witness ==
    /\ Answered
    /\ QueryHas(<<"b","u","d","g","e","t">>) /\ QueryHas(<<"l","u","x","u","r","y">>) /\ QueryHas(<<"m","i","d">>)
    /\ \A p \in { Num(2500, 0), Num(3000, 0), Num(4000, 0), Num(4500, 0) } :
           \E i \in 1..Len(response.hotels) :
               /\ response.hotels[i].price = p
               /\ priceScore(toLowerCase(request.query.text), response.hotels[i])
                      = (IF p \in { Num(3000, 0), Num(4000, 0) } THEN 15 ELSE 30)
               /\ response.hotels[i].matchScore >= 15

\* the record has an amenities element that contains the word in some
\* letter case
AmenityNames(r, word) ==
    \E a \in 1..Len(r.amenities) : includes(toLowerCase(r.amenities[a]), word)

\* C15: for a query containing "budget" and "pool", a record with
\* price < 3000 and an amenities element containing "pool" in any letter
\* case has matchScore >= 40, also when "pool" is in neither its title nor
\* its description.
C15_AmenityOnlyScored ==
    (Answered /\ QueryHas(<<"b","u","d","g","e","t">>) /\ QueryHas(<<"p","o","o","l">>)) =>
        /\ \A i \in 1..Len(candidates) :
               (candidates[i].price < Num(3000, 0)
                    /\ AmenityNames(candidates[i], <<"p","o","o","l">>))
               => matchScoreOf(toLowerCase(request.query.text), candidates[i])
                      >= 40
        /\ \A i \in 1..Len(response.hotels) :
               (response.hotels[i].price < Num(3000, 0)
                    /\ AmenityNames(response.hotels[i], <<"p","o","o","l">>))
               => response.hotels[i].matchScore >= 40

\* C15 witness: a returned record priced under 3000 whose only "pool" is
\* the amenities element "Pool", with matchScore 40
C15_Witness ==
    /\ Answered
    /\ QueryHas(<<"b","u","d","g","e","t">>) /\ QueryHas(<<"p","o","o","l">>)
    /\ \E i \in 1..Len(response.hotels) :
           /\ response.hotels[i].price < Num(3000, 0)
           /\ AmenityNames(response.hotels[i], <<"p","o","o","l">>)
           /\ \A a \in 1..Len(response.hotels[i].amenities) :
                  ~includes(response.hotels[i].amenities[a], <<"p","o","o","l">>)
           /\ ~includes(toLowerCase(response.hotels[i].title), <<"p","o","o","l">>)
           /\ ~includes(toLowerCase(response.hotels[i].description), <<"p","o","o","l">>)
           /\ response.hotels[i].matchScore = 40

\* the amenity text occurs, letter case aside, in the record's description
\* or in one of its amenities elements
QualifiesFor(amenity, r) ==
    \/ includes(toLowerCase(r.description), toLowerCase(amenity))
    \/ \E a \in 1..Len(r.amenities) :
           includes(toLowerCase(r.amenities[a]), toLowerCase(amenity))

\* C16: with amenity supplied, every returned record has the amenity text
\* as a case-insensitive substring of its description or of an amenities
\* element (the title alone does not qualify), with or without a query.
C16_AmenityFilter ==
    (Answered /\ Truthy(request.amenity)) =>
        \A i \in 1..Len(response.hotels) :
            QualifiesFor(request.amenity.text, response.hotels[i])

\* C16 witness: records are returned, and a record of the working set with
\* the amenity text in its title only is not among them
C16_Witness ==
    /\ Answered
    /\ Truthy(request.amenity)
    /\ Len(response.hotels) > 0
    /\ \E i \in 1..Len(candidates) :
           /\ includes(toLowerCase(candidates[i].title),
                       toLowerCase(request.amenity.text))
           /\ ~QualifiesFor(request.amenity.text, candidates[i])
           /\ candidates[i].id \notin IdsOf(response.hotels)

C18_FailureWhenReadFails ==
    [][ SearchRejects =>
            /\ response'.status = 500
            /\ response'.error = "Failed to search hotels"
            /\ DOMAIN response' \cap {"success", "count", "hotels"} = {} ]_vars

\* C18 witness: a request with filters on a non-empty collection has been
\* answered with the failure
C18_Witness ==
    /\ pc = "idle"
    /\ response.status = 500
    /\ listings # <<>>
    /\ Truthy(request.location)
    /\ Truthy(request.maxPrice)
    /\ Truthy(request.amenity)

\* what data.js gives for a stored listing: the four fields of a sample
\* entry that the model keeps
SeedFields(doc) ==
    [ title |-> doc.title, description |-> doc.description,
      price |-> doc.price, location |-> doc.location ]

\* the stored collection seen as sample entries
StoredSample == [i \in 1..Len(listings) |-> SeedFields(listings[i])]

\* C19: once initDB has finished its writes the collection holds exactly
\* the sample listings of data.js, each once: what was stored before is
\* gone, the collection is empty at the moment the insertion starts, and a
\* further run of the script ends with the same listings (no duplicates).
C19_SeedReplacesCollection ==
    /\ seedPc = "insert" => listings = <<>>
    /\ seedPc \in {"close", "exited"} =>
            /\ StoredSample = sampleListings
            /\ \A i, j \in 1..Len(listings) :
                    listings[i].id = listings[j].id => i = j
            /\ \A i \in 1..Len(listings) :
                    listings[i].id >= nextId - Len(sampleListings)

\* C19 witness: the script has run to its exit a second time on a database
\* that held other listings before the first run
C19_Witness ==
    /\ seedPc = "exited"
    /\ seedRuns >= 2
    /\ nextId > 2 * Len(sampleListings) + 1
    /\ Len(listings) = Len(sampleListings)

\* C20: POST /api/test-extract-amenities never changes the database:
\* whatever the outcome of the request (400, 500 or the relayed answer), the
\* stored listings, amenities included, are the same after the step as
\* before it.
C20_TestExtractReadsNothing ==
    [][ NextTestExtract => listings' = listings ]_vars

\* C20 witness: the AI service's amenities have been relayed with status
\* 200 while listings are stored whose amenities differ from the relayed
\* ones
C20_Witness ==
    /\ proxy.pc = "idle"
    /\ proxyResponse.status = 200
    /\ "amenities" \in DOMAIN proxyResponse.body
    /\ proxyResponse.body.amenities # <<>>
    /\ listings # <<>>
    /\ \A i \in 1..Len(listings) :
            listings[i].amenities # proxyResponse.body.amenities

\* the identifiers of the records of the working set that qualify for the
\* amenity text
MatchingIds(amenity) ==
    { candidates[i].id :
          i \in { k \in 1..Len(candidates) :
                      QualifiesFor(amenity, candidates[k]) } }

\* record a of the working set is ranked ahead of record b: with a query by
\* the higher capped point sum and, on a tie, by the order find returned;
\* without a query by the order find returned
RankedAhead(a, b) ==
    LET pa == CHOOSE i \in 1..Len(candidates) : candidates[i].id = a.id
        pb == CHOOSE i \in 1..Len(candidates) : candidates[i].id = b.id
        sa == min(100, PointSum(request.query.text, a))
        sb == min(100, PointSum(request.query.text, b))
    IN  IF Truthy(request.query)
        THEN sa > sb \/ (sa = sb /\ pa < pb)
        ELSE pa < pb

\* C24: the amenity filter runs on the whole ranked working set and the
\* truncation to 20 comes after it: the response holds the first
\* min(20, m) of the m amenity-matching records in ranked order, so with
\* fewer than 20 records returned every matching record of the working set
\* is in the response.
C24_FilterBeforeTruncation ==
    (Answered /\ Truthy(request.amenity)) =>
        LET m == Cardinality(MatchingIds(request.amenity.text))
            hotels == response.hotels
        IN  /\ Len(hotels) = min(SearchLimit, m)
            /\ IdsOf(hotels) \subseteq MatchingIds(request.amenity.text)
            /\ Len(hotels) < SearchLimit =>
                   IdsOf(hotels) = MatchingIds(request.amenity.text)
            /\ \A i, j \in 1..Len(hotels) :
                   i < j => RankedAhead(hotels[i], hotels[j])
            /\ \A i \in 1..Len(hotels) : \A k \in 1..Len(candidates) :
                   ( /\ QualifiesFor(request.amenity.text, candidates[k])
                     /\ candidates[k].id \notin IdsOf(hotels) )
                       => RankedAhead(hotels[i], candidates[k])

\* C24 witness: a query and an amenity are given, fewer than 20 records are
\* returned, and a returned record has at least 20 records of the working
\* set ranked ahead of it
C24_Witness ==
    /\ Answered
    /\ Truthy(request.query)
    /\ Truthy(request.amenity)
    /\ Len(response.hotels) > 0
    /\ Len(response.hotels) < SearchLimit
    /\ \E i \in 1..Len(response.hotels) :
           Cardinality({ k \in 1..Len(candidates) :
                           RankedAhead(candidates[k], response.hotels[i]) })
               >= SearchLimit

\* C28: a record whose location is empty or missing never receives the
\* 30-point location bonus: for every non-empty query its matchScore is
\* made up of keyword and price-band points only.
C28_NoBonusWithoutLocation ==
    (Answered /\ Truthy(request.query)) =>
        \A i \in 1..Len(response.hotels) :
            response.hotels[i].location = <<>> =>
                response.hotels[i].matchScore
                    = min(100, PointsWithoutLocation(request.query.text,
                                                     response.hotels[i]))

\* the field each forwarding endpoint requires
FieldRequiredBy(ep) ==
    CASE ep \in {"/travel/plan", "/travel/solo/start", "/chat/smart"} -> "query"
      [] ep = "/travel/solo/resume" -> "thread_id"
      [] ep = "/test-extract-amenities" -> "description"

\* the handler has received a request whose required field is missing or
\* empty
RequiredFieldMissing ==
    /\ proxy.endpoint # ""
    /\ \/ ~proxy.body[FieldRequiredBy(proxy.endpoint)].given
       \/ proxy.body[FieldRequiredBy(proxy.endpoint)].text = <<>>

\* the handler has received a request that carries its required field
RequiredFieldGiven ==
    /\ proxy.endpoint # ""
    /\ proxy.body[FieldRequiredBy(proxy.endpoint)].given
    /\ proxy.body[FieldRequiredBy(proxy.endpoint)].text # <<>>

\* C23: validation precedes forwarding on every proxy endpoint: a request
\* whose required field (query for /travel/plan, /travel/solo/start and
\* /chat/smart, thread_id for /travel/solo/resume, description for
\* /test-extract-amenities) is missing or empty is answered 400 and nothing
\* is sent to the AI service.
C23_ValidationBeforeForwarding ==
    RequiredFieldMissing =>
        /\ proxy.pc = "idle"
        /\ proxyResponse.status = 400
        /\ proxy.responses = 1
        /\ proxy.fetches = 0
        /\ ~proxy.ai.called

\* C23 witness: /travel/solo/resume was sent a query and an empty thread_id
\* and has been answered 400
C23_Witness ==
    /\ proxy.endpoint = "/travel/solo/resume"
    /\ Truthy(proxy.body.query)
    /\ proxy.body.thread_id.given
    /\ proxy.body.thread_id.text = <<>>
    /\ proxyResponse.status = 400
    /\ proxy.fetches = 0

\* what a request that passed validation has received so far: nothing
\* while the fetch is pending, and after it exactly one response, the AI
\* service's body under status 200 if it answered OK and a status 500 error
\* otherwise
OneResponseSoFar ==
    RequiredFieldGiven =>
        /\ proxy.pc = "fetch" =>
               proxy.responses = 0 /\ proxyResponse = NoResponse
        /\ proxy.pc = "idle" =>
               /\ proxy.responses = 1
               /\ proxy.ai.called
               /\ proxy.ai.ok =>
                      proxyResponse = [status |-> 200, body |-> proxy.ai.data]
               /\ ~proxy.ai.ok =>
                      /\ proxyResponse.status = 500
                      /\ "body" \notin DOMAIN proxyResponse

\* C25: every request to a forwarding endpoint that passes validation
\* receives exactly one response: the AI service's JSON body relayed
\* unchanged when the AI service answers OK, a status 500 error when it
\* answers with another status or the call fails; never two, and, the
\* fetch settling, never none.
C25_ExactlyOneResponse ==
    /\ []OneResponseSoFar
    /\ (proxy.pc = "fetch") ~> (proxy.pc = "idle" /\ proxy.responses = 1)

\* C25 witness: /chat/smart has relayed a body of the AI service that
\* itself carries an error and a status field
C25_Witness ==
    /\ proxy.endpoint = "/chat/smart"
    /\ proxy.pc = "idle"
    /\ proxy.ai.ok
    /\ "error" \in DOMAIN proxy.ai.data
    /\ proxyResponse.status = 200
    /\ proxyResponse.body = proxy.ai.data
    /\ proxy.responses = 1

\* the extract-amenities handler has answered a request
ExtractDone == extract.started /\ extract.pc = "idle"

\* the positions of the documents of docs that the :id value names
NamedBy(param, docs) ==
    { i \in 1..Len(docs) : param.wellFormed /\ docs[i].id = param.value }

\* C21: POST /api/listings/:id/extract-amenities answers 404 when no
\* listing has that id and 400 when the listing has no or an empty
\* description (the database answering); in both cases nothing is sent to
\* the AI service and no listing is modified.
C21_NotFoundOrNoDescription ==
    (ExtractDone /\ ~extract.dbFailed) =>
        /\ NamedBy(extract.id, extract.before) = {} =>
               /\ extractResponse.status = 404
               /\ extract.fetches = 0
               /\ listings = extract.before
        /\ \A i \in NamedBy(extract.id, extract.before) :
               extract.before[i].description = <<>> =>
                   /\ extractResponse.status = 400
                   /\ extract.fetches = 0
                   /\ listings = extract.before

\* C22: when the extraction succeeds the stored amenities of listing :id
\* are exactly the list the AI service returned, replacing what was stored,
\* the response count is the length of that list, and no other listing and
\* no other field of that listing is changed.
C22_AmenitiesReplaced ==
    (ExtractDone /\ extractResponse.status = 200) =>
        /\ extract.ai.ok
        /\ "amenities" \in DOMAIN extract.ai.data
        /\ extractResponse.amenities = extract.ai.data.amenities
        /\ extractResponse.count = Len(extract.ai.data.amenities)
        /\ Len(listings) = Len(extract.before)
        /\ Cardinality(NamedBy(extract.id, extract.before)) = 1
        /\ \A i \in 1..Len(listings) :
               IF i \in NamedBy(extract.id, extract.before)
               THEN /\ listings[i].hasAmenities
                    /\ listings[i].amenities = extract.ai.data.amenities
                    /\ listings[i].id = extract.before[i].id
                    /\ listings[i].title = extract.before[i].title
                    /\ listings[i].description = extract.before[i].description
                    /\ listings[i].location = extract.before[i].location
                    /\ listings[i].price = extract.before[i].price
               ELSE listings[i] = extract.before[i]

\* C22 witness: a listing that had amenities stored got a different,
\* non-empty list, next to another listing
C22_Witness ==
    /\ ExtractDone
    /\ extractResponse.status = 200
    /\ extractResponse.count > 0
    /\ Len(listings) >= 2
    /\ \E i \in NamedBy(extract.id, extract.before) :
           /\ extract.before[i].amenities # <<>>
           /\ extract.before[i].amenities # listings[i].amenities

\* C29: extraction is all-or-nothing with respect to its response: whenever
\* the handler answers with status 500, also when the AI service's OK reply
\* carries no amenities list, the stored amenities of listing :id are what
\* they were before the request.
C29_ErrorLeavesAmenities ==
    (ExtractDone /\ extractResponse.status = 500) =>
        \A i \in NamedBy(extract.id, extract.before) :
            listings[i].amenities = extract.before[i].amenities

\* the bulk handler has answered a request
BulkDone == bulk.started /\ bulk.pc = "idle"

\* the positions in docs of the listings whose amenities are missing or
\* empty
WithoutAmenities(docs) ==
    { i \in 1..Len(docs) : ~docs[i].hasAmenities \/ docs[i].amenities = <<>> }

\* the number of entries of results with the given status
CountStatus(results, status) ==
    Cardinality({ i \in 1..Len(results) : results[i].status = status })

\* C26: bulk extraction selects exactly the listings whose amenities are
\* missing or empty and its report is consistent: processed is the number
\* of selected listings, results has one entry per selected listing, and
\* success + failed + the number of skipped entries = processed; with no
\* listing selected it reports processed 0 and sends nothing to the AI
\* service.
C26_BulkReportConsistent ==
    (BulkDone /\ bulkResponse.status = 200) =>
        LET chosen == WithoutAmenities(bulk.before)
        IN  /\ bulkResponse.processed = Cardinality(chosen)
            /\ IdsOf(bulk.selected) = { bulk.before[i].id : i \in chosen }
            /\ Len(bulk.selected) = Cardinality(chosen)
            /\ IF chosen = {}
               THEN /\ bulkResponse.processed = 0
                    /\ bulkResponse.success = 0
                    /\ bulkResponse.failed = 0
                    /\ bulk.fetches = 0
               ELSE /\ Len(bulkResponse.results) = bulkResponse.processed
                    /\ \A k \in 1..Len(bulk.selected) :
                           bulkResponse.results[k].listing_id
                               = bulk.selected[k].id
                    /\ bulkResponse.success
                           = CountStatus(bulkResponse.results, "success")
                    /\ bulkResponse.failed
                           = CountStatus(bulkResponse.results, "failed")
                    /\ bulkResponse.success + bulkResponse.failed
                           + CountStatus(bulkResponse.results, "skipped")
                           = bulkResponse.processed

\* C26 witness: of two stored listings both were selected, one was skipped
\* and one succeeded
C26_Witness ==
    /\ BulkDone
    /\ bulkResponse.status = 200
    /\ bulkResponse.processed = 2
    /\ CountStatus(bulkResponse.results, "skipped") = 1
    /\ bulkResponse.success = 1

\* C27: in bulk extraction a failure on one listing (AI service not OK, the
\* call failing, or save failing) does not stop the run: that listing is
\* reported failed, every later selected listing is still processed, and
\* the request ends with the summary, not with a 500.
C27_FailureDoesNotStopRun ==
    (BulkDone /\ bulk.selected # <<>>) =>
        /\ bulkResponse.status = 200
        /\ Len(bulkResponse.results) = Len(bulk.selected)
        /\ \A k \in bulk.faults : bulkResponse.results[k].status = "failed"
        /\ bulk.fetches
               = Cardinality({ k \in 1..Len(bulk.selected) :
                                   bulk.selected[k].description # <<>> })

\* C27 witness: the first of two selected listings failed and the second
\* succeeded
C27_Witness ==
    /\ BulkDone
    /\ Len(bulk.selected) = 2
    /\ 1 \in bulk.faults
    /\ bulkResponse.status = 200
    /\ bulkResponse.results[1].status = "failed"
    /\ bulkResponse.results[2].status = "success"

=============================================================================
